---- MODULE Spec2Model ----
(***************************************************************************)
(* Model of the channel posting bot (src/bot.py): the per-operator posting *)
(* workflow driven by python-telegram-bot's ConversationHandler, the       *)
(* pickled session and post-history files, and the temporary files.        *)
(*                                                                         *)
(* One action stands for one handled update: the dispatcher processes      *)
(* updates one at a time, so a handler runs from its first line to its     *)
(* return (or to the call that raises) without interleaving.  A handler    *)
(* that raises leaves the conversation state as it was; a handler that     *)
(* returns ConversationHandler.END removes the conversation; a handler     *)
(* that returns None leaves it as it was.  All chats are private chats, so *)
(* the conversation key (chat, user) is the user.                          *)
(*                                                                         *)
(* Environment: a call to the messaging transport may raise, the outbound  *)
(* post may be rejected, a download or a frame extraction may fail, and    *)
(* the process may be restarted between two updates.                       *)
(***************************************************************************)
EXTENDS Integers, Sequences, FiniteSets, TLC

\* ------------------------------------------------------------------ bounds
MaxDirs == 1
MaxPosts == 2

\* --------------------------------------------------------------- constants
ADMIN_USER_ID == 1352497419
OTHER_USER_ID == 1
Users == {ADMIN_USER_ID, OTHER_USER_ID}

MAX_FILE_SIZE == 1024 * 1024 * 1024

END == -1
WAITING_FOR_URL == 0
WAITING_FOR_CAPTION == 1
WAITING_FOR_CHANNEL_SELECTION == 2
WAITING_FOR_THUMBNAIL_SELECTION == 3
WAITING_FOR_BROADCAST_MESSAGE == 4

CALLBACK_MOVIES == "channel_movies"
CALLBACK_STUFF == "channel_stuff"
CALLBACK_THUMBNAIL_START == "thumbnail_"
CALLBACK_THUMBNAIL_CUSTOM == "thumbnail_custom"

MOVIES_CHANNEL == "@diskmoviee"
STUFF_CHANNEL == "@dailydiskwala"

\* positions = [0.1, 0.25, 0.5, 0.75, 0.9], in percent, indexed from 0
positions == [i \in 0..4 |-> <<10, 25, 50, 75, 90>>[i + 1]]

\* ------------------------------------------------------------------ values
\* A key that a Python dict does not hold.
NoPath == <<>>
Absent == "absent"

\* A path below TEMP_FOLDER: <<directory, kind, index>>.  Directory 0 is
\* temp/history; the directories made by tempfile.mkdtemp are 1, 2, ...
VideoPath(d) == <<d, "video", 0>>
ThumbPath(d, i) == <<d, "thumbnail", i>>
CustomPath(d) == <<d, "custom", 0>>
HistoryPath(ts) == <<0, "history", ts>>
DirOf(p) == p[1]

\* The texts an operator sends.
Texts == {"42", "150", "abc", " http://a "}

\* str.strip()
Strip(t) == IF t = " http://a " THEN "http://a" ELSE t

\* url.startswith(('http://', 'https://'))
StartsWithHttp_any_scheme(t) == t \in {"http://a", "https://b", "ftp://c"}

StartsWithHttp(t) == t \in {"http://a", "https://b"}

\* The replies an operator sends when asked for the URL.
UrlTexts == {" http://a ", "https://b", "ftp://c", "HTTP://A", "abc"}

\* float(text.strip()): <<TRUE, value>>, or <<FALSE, 0>> for ValueError
ParseFloat(t) ==
    CASE Strip(t) = "42" -> <<TRUE, 42>>
      [] Strip(t) = "150" -> <<TRUE, 150>>
      [] Strip(t) = "0" -> <<TRUE, 0>>
      [] Strip(t) = "100" -> <<TRUE, 100>>
      [] Strip(t) = "-1" -> <<TRUE, -1>>
      [] OTHER -> <<FALSE, 0>>

\* The replies an operator sends when asked for a position.
PositionTexts == {"42", "150", "abc", "0", "100", "-1"}

\* Callback data: the string s, and for "thumbnail_<n>" the integer n.
CallbackData ==
    [s : {CALLBACK_MOVIES, CALLBACK_STUFF, CALLBACK_THUMBNAIL_CUSTOM, "thumbnail_x", "noop"}, n : {0}]
      \cup [s : {CALLBACK_THUMBNAIL_START}, n : -4..3]

\* query.data.startswith(CALLBACK_THUMBNAIL_START)
StartsWithThumbnail(data) ==
    data.s \in {CALLBACK_THUMBNAIL_START, CALLBACK_THUMBNAIL_CUSTOM, "thumbnail_x"}

\* int(query.data.replace(CALLBACK_THUMBNAIL_START, "")): <<TRUE, n>>, or
\* <<FALSE, 0>> for ValueError
ParseIndex(data) ==
    IF data.s = CALLBACK_THUMBNAIL_START THEN <<TRUE, data.n>> ELSE <<FALSE, 0>>

VideoSizes == {1, MAX_FILE_SIZE, MAX_FILE_SIZE + 1}

\* The sets of positions whose extraction succeeds in one acquisition: the
\* first, third and fifth, or none.
ExtractionOutcomes == {{0, 2, 4}, {}}

\* The captions an operator sends: any text is one.
Captions == {"abc"}

\* ------------------------------------------------------------------- state
VARIABLES
    user_data,      \* the sessions in memory: user id -> session
    session_file,   \* the content of bot_session.pickle
    post_history,   \* the post history in memory
    posts_file,     \* the content of post_history.pickle
    conv,           \* conv_handler's conversation state of each user
    bconv,          \* broadcast_handler's conversation state of each user
    files,          \* the files below TEMP_FOLDER
    dirs,           \* the directories made by mkdtemp that exist
    next_dir,       \* the number of directories mkdtemp has made
    DEBUG_MODE,
    AUTO_START,
    sent_posts,     \* the posts the destination channels accepted
    clock,          \* the last reading of datetime.now(), in seconds
    last,           \* the last update: sender, handler, outcome, effects
    terabox,        \* src/main.py: the fetch_video call of the message being handled
    bcast,          \* src/main.py: the call of broadcast_message in progress
    transfer,       \* the call of download_large_file_with_progress in progress
    loop,           \* src/main.py: the updates of another user the event loop holds
    link            \* src/main.py: the last text given to extract_terabox_id and its result

vars == <<user_data, session_file, post_history, posts_file, conv, bconv, files, dirs,
          next_dir, DEBUG_MODE, AUTO_START, sent_posts, clock, last, terabox, bcast, transfer,
          loop, link>>

\* The effects of a handler, in the order the handler produces them.
Reply == "reply"
Mut == "mut"
Save == "save"
Post == "post"
Broadcast == "broadcast"
History == "history"

Last(u, h, res, tr) == [user |-> u, handler |-> h, result |-> res, trace |-> tr]

\* ---------------------------------------------------------------- helpers
\* pickle.dump(data, f): the file holds a snapshot of the data.
save_data(data) == data

\* pickle.load(f)
load_data(file) == file

\* del d[u]
Del(d, u) == [v \in DOMAIN d \ {u} |-> d[v]]

\* d[u] = x
Put(d, u, x) == [v \in DOMAIN d \cup {u} |-> IF v = u THEN x ELSE d[v]]

\* try_delete_file over a set of paths
try_delete_files(fs, ps) == fs \ ps

Range(s) == {s[i] : i \in 1..Len(s)}

\* shutil.rmtree(temp_dir)
rmtree(fs, d) == {p \in fs : DirOf(p) # d}

\* check_admin with the comparison left out: every user passes.
check_admin_any_user(u) == u \in Users

check_admin(u) == u = ADMIN_USER_ID

\* ------------------------------------------------- src/main.py: constants
max_retries == 3
max_download_retries == 3
TELEGRAM_SIZE_LIMIT == 50000000
BothFailed == "Both APIs failed to fetch the video"

\* What one requests.get of a provider can come to: a JSON body with
\* success == True, a body without it, requests.exceptions.Timeout, or any
\* other exception (connection error, body that is not JSON, ...).
RequestOutcomes == {"success", "unsuccessful", "timeout", "error"}

\* The 'data' member of a provider's body; `missing` is a body without one.
Datas ==
    {[missing |-> TRUE, downloadLink |-> Absent, size |-> 0],
     [missing |-> FALSE, downloadLink |-> Absent, size |-> 1],
     [missing |-> FALSE, downloadLink |-> "http://d", size |-> 1],
     [missing |-> FALSE, downloadLink |-> "http://d", size |-> TELEGRAM_SIZE_LIMIT + 1]}

NoResult == [success |-> FALSE, error |-> "none"]

\* No message is being handled.
Idle ==
    [pc |-> "idle", primary_retries |-> 0, fallback_retries |-> 0, log |-> << >>,
     result |-> NoResult, replies |-> << >>, downloads |-> 0, lookup |-> "none"]

\* broadcast_message(context, message_text, send_by=None, batch_size=100, delay=1)
batch_size == 100

\* src/main.py imports os, logging, time, ... but not asyncio: the name is
\* unbound where asyncio.sleep is called.
asyncio_imported == FALSE

NoCounts == [success |-> FALSE, error |-> "none"]

\* No download is in progress.
NoTransfer ==
    [pc |-> "idle", total |-> 0, downloaded |-> 0, edits |-> 0, edit_failed |-> FALSE,
     stream_failed |-> FALSE, result |-> "none", kept |-> 0]

\* No update of another user is waiting.
NoUpdates == [pending |-> FALSE, served |-> 0]

\* extract_terabox_id has not been called.
NoLink == [text |-> << >>, video_id |-> << >>, called |-> FALSE]

\* No broadcast is in progress.
NoBroadcast ==
    [pc |-> "idle", total |-> 0, read |-> 0, batch |-> 0, pending |-> 0, attempted |-> 0,
     success_count |-> 0, fail_count |-> 0, processed |-> 0, result |-> NoCounts,
     command |-> "none"]

Init ==
    /\ user_data = << >>
    /\ session_file = << >>
    /\ post_history = << >>
    /\ posts_file = << >>
    /\ conv = [u \in Users |-> END]
    /\ bconv = [u \in Users |-> END]
    /\ files = {}
    /\ dirs = {}
    /\ next_dir = 0
    /\ DEBUG_MODE = FALSE
    /\ AUTO_START = TRUE
    /\ sent_posts = << >>
    /\ clock = 0
    /\ last = Last(0, "none", "none", << >>)
    /\ terabox = Idle
    /\ bcast = NoBroadcast
    /\ transfer = NoTransfer
    /\ loop = NoUpdates
    /\ link = NoLink

\* ---------------------------------------------------------------- dispatch
\* conv_handler with process_url registered for text in
\* WAITING_FOR_THUMBNAIL_SELECTION instead of handle_custom_thumbnail.
ConvRoute_url_in_thumbnail_state(u, kind, arg) ==
    IF conv[u] = END
    THEN CASE kind = "command" /\ arg = "start" -> "start"
           [] kind = "video" -> "process_video"
           [] OTHER -> "none"
    ELSE CASE conv[u] = WAITING_FOR_THUMBNAIL_SELECTION /\ kind = "callback" -> "select_thumbnail"
           [] conv[u] = WAITING_FOR_THUMBNAIL_SELECTION /\ kind = "text" -> "process_url"
           [] conv[u] = WAITING_FOR_URL /\ kind = "text" -> "process_url"
           [] conv[u] = WAITING_FOR_CAPTION /\ kind = "text" -> "process_caption"
           [] conv[u] = WAITING_FOR_CHANNEL_SELECTION /\ kind = "callback" -> "select_channel_and_post"
           [] kind = "command" /\ arg = "cancel" -> "cancel"
           [] OTHER -> "none"

\* ConversationHandler.check_update of conv_handler: the handler that takes
\* the update, or "none".
ConvRoute(u, kind, arg) ==
    IF conv[u] = END
    THEN CASE kind = "command" /\ arg = "start" -> "start"
           [] kind = "video" -> "process_video"
           [] OTHER -> "none"
    ELSE CASE conv[u] = WAITING_FOR_THUMBNAIL_SELECTION /\ kind = "callback" -> "select_thumbnail"
           [] conv[u] = WAITING_FOR_THUMBNAIL_SELECTION /\ kind = "text" -> "handle_custom_thumbnail"
           [] conv[u] = WAITING_FOR_URL /\ kind = "text" -> "process_url"
           [] conv[u] = WAITING_FOR_CAPTION /\ kind = "text" -> "process_caption"
           [] conv[u] = WAITING_FOR_CHANNEL_SELECTION /\ kind = "callback" -> "select_channel_and_post"
           [] kind = "command" /\ arg = "cancel" -> "cancel"
           [] OTHER -> "none"

\* ConversationHandler.check_update of broadcast_handler
BroadcastRoute(u, kind, arg) ==
    IF bconv[u] = END
    THEN CASE kind = "command" /\ arg = "broadcast" -> "broadcast_command"
           [] OTHER -> "none"
    ELSE CASE kind = "text" -> "process_broadcast_message"
           [] kind = "command" /\ arg = "cancel" -> "cancel"
           [] OTHER -> "none"

\* The command handlers added after the two conversation handlers that
\* change state (help, status and posts only reply).
CommandRoute(kind, arg) ==
    CASE kind = "command" /\ arg = "debug" -> "toggle_debug"
      [] kind = "command" /\ arg = "autostart" -> "toggle_autostart"
      [] kind = "command" /\ arg = "cleanup" -> "cleanup_command"
      [] OTHER -> "none"

\* The handlers of group 0 in the order main() adds them: the first one
\* that accepts the update handles it.  <<owner, handler>>.
Route(u, kind, arg) ==
    CASE ConvRoute(u, kind, arg) # "none" -> <<"conv", ConvRoute(u, kind, arg)>>
      [] BroadcastRoute(u, kind, arg) # "none" -> <<"bconv", BroadcastRoute(u, kind, arg)>>
      [] CommandRoute(kind, arg) # "none" -> <<"app", CommandRoute(kind, arg)>>
      [] OTHER -> <<"none", "none">>

Commands == {"start", "cancel", "broadcast", "debug", "autostart", "cleanup"}

\* The handler of the conversation `owner` returned `state` for user u.
Return(owner, u, state) ==
    /\ conv' = IF owner = "conv" THEN [conv EXCEPT ![u] = state] ELSE conv
    /\ bconv' = IF owner = "bconv" THEN [bconv EXCEPT ![u] = state] ELSE bconv

\* The handler raised, or returned None: the conversation is as it was.
Keep == UNCHANGED <<conv, bconv>>

\* check_admin found that u is not the admin and replied so; handler h
\* returned.
Unauthorized(owner, u, h) ==
    /\ last' = Last(u, "check_admin", "unauthorized", <<Reply>>)
    /\ Return(owner, u, END)
    /\ UNCHANGED <<user_data, session_file, post_history, posts_file, files, dirs, next_dir,
                   DEBUG_MODE, AUTO_START, sent_posts, clock>>

\* An update no handler accepts is dropped.
Dropped(u, kind, arg) ==
    /\ UNCHANGED <<terabox, bcast, transfer, loop, link>>
    /\ Route(u, kind, arg) = <<"none", "none">>
    /\ last' = Last(u, "none", "dropped", << >>)
    /\ UNCHANGED <<user_data, session_file, post_history, posts_file, conv, bconv, files, dirs,
                   next_dir, DEBUG_MODE, AUTO_START, sent_posts, clock>>

\* ------------------------------------------------------------ plain commands
start(u) ==
    /\ UNCHANGED <<terabox, bcast, transfer, loop, link>>
    /\ Route(u, "command", "start") = <<"conv", "start">>
    /\ IF ~check_admin(u)
       THEN /\ Keep
            /\ last' = Last(u, "check_admin", "unauthorized", <<Reply>>)
       ELSE /\ Keep
            /\ last' = Last(u, "start", "ok", <<Reply>>)
    /\ UNCHANGED <<user_data, session_file, post_history, posts_file, files, dirs, next_dir,
                   DEBUG_MODE, AUTO_START, sent_posts, clock>>

toggle_debug(u) ==
    /\ UNCHANGED <<terabox, bcast, transfer, loop, link>>
    /\ Route(u, "command", "debug") = <<"app", "toggle_debug">>
    /\ IF ~check_admin(u)
       THEN Unauthorized("app", u, "toggle_debug")
       ELSE /\ DEBUG_MODE' = ~DEBUG_MODE
            /\ last' = Last(u, "toggle_debug", "ok", <<Reply>>)
            /\ UNCHANGED <<user_data, session_file, post_history, posts_file, conv, bconv,
                           files, dirs, next_dir, AUTO_START, sent_posts, clock>>

toggle_autostart(u) ==
    /\ UNCHANGED <<terabox, bcast, transfer, loop, link>>
    /\ Route(u, "command", "autostart") = <<"app", "toggle_autostart">>
    /\ IF ~check_admin(u)
       THEN Unauthorized("app", u, "toggle_autostart")
       ELSE /\ AUTO_START' = ~AUTO_START
            /\ last' = Last(u, "toggle_autostart", "ok", <<Reply>>)
            /\ UNCHANGED <<user_data, session_file, post_history, posts_file, conv, bconv,
                           files, dirs, next_dir, DEBUG_MODE, sent_posts, clock>>

\* cleanup_command without user_data.clear().
cleanup_command_keeps_sessions(u) ==
    /\ UNCHANGED <<terabox, bcast, transfer, loop, link>>
    /\ Route(u, "command", "cleanup") = <<"app", "cleanup_command">>
    /\ IF ~check_admin(u)
       THEN Unauthorized("app", u, "cleanup_command")
       ELSE /\ files' = {p \in files : DirOf(p) = 0}
            /\ dirs' = {}
            /\ user_data' = user_data
            /\ session_file' = save_data(user_data')
            /\ last' = Last(u, "cleanup_command", "ok", <<Mut, Save, Reply>>)
            /\ UNCHANGED <<post_history, posts_file, conv, bconv, next_dir, DEBUG_MODE,
                           AUTO_START, sent_posts, clock>>

cleanup_command(u) ==
    /\ UNCHANGED <<terabox, bcast, transfer, loop, link>>
    /\ Route(u, "command", "cleanup") = <<"app", "cleanup_command">>
    /\ IF ~check_admin(u)
       THEN Unauthorized("app", u, "cleanup_command")
       ELSE /\ files' = {p \in files : DirOf(p) = 0}
            /\ dirs' = {}
            /\ user_data' = << >>
            /\ session_file' = save_data(user_data')
            /\ last' = Last(u, "cleanup_command", "ok", <<Mut, Save, Reply>>)
            /\ UNCHANGED <<post_history, posts_file, conv, bconv, next_dir, DEBUG_MODE,
                           AUTO_START, sent_posts, clock>>

\* -------------------------------------------------------------- broadcast
broadcast_command(u, replied) ==
    /\ UNCHANGED <<terabox, bcast, transfer, loop, link>>
    /\ Route(u, "command", "broadcast") = <<"bconv", "broadcast_command">>
    /\ IF ~check_admin(u)
       THEN Unauthorized("bconv", u, "broadcast_command")
       ELSE /\ IF replied
               THEN /\ Return("bconv", u, WAITING_FOR_BROADCAST_MESSAGE)
                    /\ last' = Last(u, "broadcast_command", "ok", <<Reply>>)
               ELSE /\ Keep
                    /\ last' = Last(u, "broadcast_command", "raised", << >>)
            /\ UNCHANGED <<user_data, session_file, post_history, posts_file, files, dirs,
                           next_dir, DEBUG_MODE, AUTO_START, sent_posts, clock>>

\* delivered: the channels among [MOVIES_CHANNEL, STUFF_CHANNEL] that accept
\* the message.
process_broadcast_message(u, text, delivered, replied) ==
    /\ UNCHANGED <<terabox, bcast, transfer, loop, link>>
    /\ Route(u, "text", text) = <<"bconv", "process_broadcast_message">>
    /\ IF ~check_admin(u)
       THEN Unauthorized("bconv", u, "process_broadcast_message")
       ELSE /\ IF replied
               THEN /\ Return("bconv", u, END)
                    /\ last' = Last(u, "process_broadcast_message", "ok",
                                    [i \in 1..Cardinality(delivered) |-> Broadcast] \o <<Reply>>)
               ELSE /\ Keep
                    /\ last' = Last(u, "process_broadcast_message", "raised",
                                    [i \in 1..Cardinality(delivered) |-> Broadcast])
            /\ UNCHANGED <<user_data, session_file, post_history, posts_file, files, dirs,
                           next_dir, DEBUG_MODE, AUTO_START, sent_posts, clock>>

\* ----------------------------------------------------------------- cancel
\* cancel without del user_data[user_id].
cancel_keeps_session(u, replied) ==
    /\ UNCHANGED <<terabox, bcast, transfer, loop, link>>
    /\ \E owner \in {"conv", "bconv"} :
        /\ Route(u, "command", "cancel") = <<owner, "cancel">>
        /\ IF ~check_admin(u)
           THEN Unauthorized(owner, u, "cancel")
           ELSE /\ IF u \in DOMAIN user_data
                   THEN /\ files' = try_delete_files(files,
                                        {user_data[u].video_path}
                                          \cup Range(user_data[u].thumbnails)
                                          \cup {user_data[u].thumbnail_path})
                        /\ user_data' = user_data
                        /\ session_file' = save_data(user_data')
                   ELSE UNCHANGED <<files, user_data, session_file>>
                /\ IF replied
                   THEN /\ Return(owner, u, END)
                        /\ last' = Last(u, "cancel", "ok",
                                        IF u \in DOMAIN user_data THEN <<Mut, Save, Reply>> ELSE <<Reply>>)
                   ELSE /\ Keep
                        /\ last' = Last(u, "cancel", "raised",
                                        IF u \in DOMAIN user_data THEN <<Mut, Save>> ELSE << >>)
                /\ UNCHANGED <<post_history, posts_file, dirs, next_dir, DEBUG_MODE,
                               AUTO_START, sent_posts, clock>>

cancel(u, replied) ==
    /\ UNCHANGED <<terabox, bcast, transfer, loop, link>>
    /\ \E owner \in {"conv", "bconv"} :
        /\ Route(u, "command", "cancel") = <<owner, "cancel">>
        /\ IF ~check_admin(u)
           THEN Unauthorized(owner, u, "cancel")
           ELSE /\ IF u \in DOMAIN user_data
                   THEN /\ files' = try_delete_files(files,
                                        {user_data[u].video_path}
                                          \cup Range(user_data[u].thumbnails)
                                          \cup {user_data[u].thumbnail_path})
                        /\ user_data' = Del(user_data, u)
                        /\ session_file' = save_data(user_data')
                   ELSE UNCHANGED <<files, user_data, session_file>>
                /\ IF replied
                   THEN /\ Return(owner, u, END)
                        /\ last' = Last(u, "cancel", "ok",
                                        IF u \in DOMAIN user_data THEN <<Mut, Save, Reply>> ELSE <<Reply>>)
                   ELSE /\ Keep
                        /\ last' = Last(u, "cancel", "raised",
                                        IF u \in DOMAIN user_data THEN <<Mut, Save>> ELSE << >>)
                /\ UNCHANGED <<post_history, posts_file, dirs, next_dir, DEBUG_MODE,
                               AUTO_START, sent_posts, clock>>

\* ------------------------------------------------------------ process_video
\* user_data[user_id] = {'video_path': video_path, 'thumbnails': []}
NewSession(d) ==
    [video_path |-> VideoPath(d), thumbnails |-> << >>, waiting_for_custom_thumbnail |-> FALSE,
     thumbnail_path |-> NoPath, url |-> Absent, caption |-> Absent]

\* The thumbnails list after the first n rounds of the extraction loop, when
\* the extractions at the positions in S succeed.
RECURSIVE Extracted_stops_at_failure(_, _, _)
Extracted_stops_at_failure(d, S, n) ==
    IF n = 0 THEN << >>
    ELSE LET before == Extracted_stops_at_failure(d, S, n - 1)
         IN  IF Len(before) < n - 1 \/ (n - 1) \notin S
             THEN before
             ELSE before \o <<ThumbPath(d, n - 1)>>

RECURSIVE Extracted(_, _, _)
Extracted(d, S, n) ==
    IF n = 0 THEN << >>
    ELSE Extracted(d, S, n - 1) \o (IF (n - 1) \in S THEN <<ThumbPath(d, n - 1)>> ELSE << >>)

\* The effects of the first n rounds of the extraction loop.
RECURSIVE LoopTrace(_, _)
LoopTrace(S, n) ==
    IF n = 0 THEN << >>
    ELSE LoopTrace(S, n - 1) \o <<Reply>> \o (IF (n - 1) \in S THEN <<Mut>> ELSE << >>)

\* The size guard of process_video: if file_size > MAX_FILE_SIZE.
TooLarge_at_ceiling(size) == size >= MAX_FILE_SIZE

TooLarge(size) == size > MAX_FILE_SIZE

\* Where process_video stops:
\*   "raised_before"    the reply before the try block raises
\*   "download_failed"  download_large_file_with_progress returns False
\*   "download_error_unreported"  the download fails and its error reply raises
\*   "after_init"       a reply after the first save_session raises
\*   "in_loop"          the status edit of round n of the loop raises
\*   "after_loop"       the status edit after the loop raises
\*   "after_save"       the reply after the second save_session raises
\*   "ok"               no call raises
VideoOutcomes ==
    {"raised_before", "download_failed", "download_error_unreported", "after_init",
     "in_loop", "after_loop", "after_save", "ok"}

\* The inputs <<x, S, n, partial>> that make a difference to process_video:
\* S, the positions whose extraction succeeds; n, the round of the loop that
\* raises; partial, whether a failed download left a part of the file.
VideoInputs(u, size) ==
    IF ~check_admin(u) \/ (~AUTO_START /\ u \notin DOMAIN user_data) \/ TooLarge(size)
    THEN {<<"ok", {}, 0, FALSE>>}
    ELSE {<<"raised_before", {}, 0, FALSE>>, <<"download_failed", {}, 0, FALSE>>,
          <<"after_init", {}, 0, FALSE>>}
           \cup {<<"download_error_unreported", {}, 0, partial>> : partial \in BOOLEAN}
           \cup {<<"in_loop", S, n, FALSE>> : S \in ExtractionOutcomes, n \in 0..4}
           \cup {<<x, S, 0, FALSE>> : x \in {"after_loop", "after_save", "ok"},
                                     S \in ExtractionOutcomes}

process_video(u, size, x, S, n, partial) ==
    /\ UNCHANGED <<terabox, bcast, transfer, loop, link>>
    /\ Route(u, "video", size) = <<"conv", "process_video">>
    /\ IF ~check_admin(u)
       THEN Unauthorized("conv", u, "process_video")
       ELSE IF (~AUTO_START /\ u \notin DOMAIN user_data) \/ TooLarge(size)
       THEN /\ Return("conv", u, END)
            /\ last' = Last(u, "process_video",
                            IF ~AUTO_START /\ u \notin DOMAIN user_data THEN "start_required"
                                                                         ELSE "too_large",
                            <<Reply>>)
            /\ UNCHANGED <<user_data, session_file, post_history, posts_file, files, dirs,
                           next_dir, DEBUG_MODE, AUTO_START, sent_posts, clock>>
       ELSE IF x = "raised_before"
       THEN /\ Keep
            /\ last' = Last(u, "process_video", "raised", << >>)
            /\ UNCHANGED <<user_data, session_file, post_history, posts_file, files, dirs,
                           next_dir, DEBUG_MODE, AUTO_START, sent_posts, clock>>
       ELSE LET d == next_dir + 1
                init == Put(user_data, u, NewSession(d))
                rounds == IF x = "in_loop" THEN n ELSE 5
                thumbs == Extracted(d, S, rounds)
                full == Put(user_data, u, [NewSession(d) EXCEPT !.thumbnails = thumbs])
            IN  /\ next_dir < MaxDirs
                /\ next_dir' = d
                /\ UNCHANGED <<post_history, posts_file, bconv, DEBUG_MODE, AUTO_START,
                               sent_posts, clock>>
                /\ CASE x = "download_failed" ->
                          /\ UNCHANGED <<user_data, session_file, files, dirs>>
                          /\ conv' = [conv EXCEPT ![u] = END]
                          /\ last' = Last(u, "process_video", "download_failed", <<Reply, Reply>>)
                     [] x = "download_error_unreported" ->
                          /\ UNCHANGED <<user_data, session_file>>
                          /\ dirs' = dirs \cup {d}
                          /\ files' = files \cup (IF partial THEN {VideoPath(d)} ELSE {})
                          /\ conv' = [conv EXCEPT ![u] = END]
                          /\ last' = Last(u, "process_video", "exception", <<Reply, Reply>>)
                     [] x = "after_init" ->
                          /\ user_data' = init
                          /\ session_file' = save_data(init)
                          /\ dirs' = dirs \cup {d}
                          /\ files' = files \cup {VideoPath(d)}
                          /\ conv' = [conv EXCEPT ![u] = END]
                          /\ last' = Last(u, "process_video", "exception",
                                          <<Reply, Reply, Mut, Save, Reply>>)
                     [] x \in {"in_loop", "after_loop"} ->
                          /\ user_data' = full
                          /\ session_file' = save_data(init)
                          /\ dirs' = dirs \cup {d}
                          /\ files' = files \cup {VideoPath(d)} \cup Range(thumbs)
                          /\ conv' = [conv EXCEPT ![u] = END]
                          /\ last' = Last(u, "process_video", "exception",
                                          <<Reply, Reply, Mut, Save, Reply, Reply>>
                                            \o LoopTrace(S, rounds) \o <<Reply>>)
                     [] x = "after_save" ->
                          /\ user_data' = full
                          /\ session_file' = save_data(full)
                          /\ dirs' = dirs \cup {d}
                          /\ files' = files \cup {VideoPath(d)} \cup Range(thumbs)
                          /\ conv' = [conv EXCEPT ![u] = END]
                          /\ last' = Last(u, "process_video", "exception",
                                          <<Reply, Reply, Mut, Save, Reply, Reply>>
                                            \o LoopTrace(S, 5) \o <<Reply, Save, Reply>>)
                     [] x = "ok" /\ thumbs # << >> ->
                          /\ user_data' = full
                          /\ session_file' = save_data(full)
                          /\ dirs' = dirs \cup {d}
                          /\ files' = files \cup {VideoPath(d)} \cup Range(thumbs)
                          /\ conv' = [conv EXCEPT ![u] = WAITING_FOR_THUMBNAIL_SELECTION]
                          /\ last' = Last(u, "process_video", "ok",
                                          <<Reply, Reply, Mut, Save, Reply, Reply>>
                                            \o LoopTrace(S, 5) \o <<Reply, Save, Reply, Reply>>)
                     [] x = "ok" /\ thumbs = << >> ->
                          /\ user_data' = Del(full, u)
                          /\ session_file' = save_data(user_data')
                          /\ dirs' = dirs
                          /\ files' = files
                          /\ conv' = [conv EXCEPT ![u] = END]
                          /\ last' = Last(u, "process_video", "no_thumbnails",
                                          <<Reply, Reply, Mut, Save, Reply, Reply>>
                                            \o LoopTrace(S, 5) \o <<Reply, Save, Reply, Mut, Save>>)

\* ----------------------------------------------------- conversation steps
\* A branch that only replies and returns `state`; if the reply raises, the
\* conversation is as it was.
ReplyOnly(owner, u, h, res, state, replied) ==
    /\ IF replied
       THEN /\ Return(owner, u, state)
            /\ last' = Last(u, h, res, <<Reply>>)
       ELSE /\ Keep
            /\ last' = Last(u, h, "raised", << >>)
    /\ UNCHANGED <<user_data, session_file, post_history, posts_file, files, dirs, next_dir,
                   DEBUG_MODE, AUTO_START, sent_posts, clock>>

\* thumbnails[k] of a Python list: a negative k counts from the end.
\* <<TRUE, element>>, or <<FALSE, NoPath>> for IndexError.
ListIndex(list, k) ==
    IF 0 <= k /\ k < Len(list) THEN <<TRUE, list[k + 1]>>
    ELSE IF k < 0 /\ -k <= Len(list) THEN <<TRUE, list[Len(list) + k + 1]>>
    ELSE <<FALSE, NoPath>>

\* x: "ok", "answer_fails" (query.answer raises) or "edit_fails"
\* (query.edit_message_text raises).
select_thumbnail(u, data, x) ==
    /\ UNCHANGED <<terabox, bcast, transfer, loop, link>>
    /\ Route(u, "callback", data) = <<"conv", "select_thumbnail">>
    /\ IF x = "answer_fails"
       THEN ReplyOnly("conv", u, "select_thumbnail", "raised", conv[u], FALSE)
       ELSE IF u # ADMIN_USER_ID
       THEN ReplyOnly("conv", u, "select_thumbnail", "unauthorized", END, x = "ok")
       ELSE IF u \notin DOMAIN user_data
       THEN ReplyOnly("conv", u, "select_thumbnail", "no_session", END, x = "ok")
       ELSE IF data.s = CALLBACK_THUMBNAIL_CUSTOM
       THEN IF x = "edit_fails"
            THEN ReplyOnly("conv", u, "select_thumbnail", "raised", conv[u], FALSE)
            ELSE /\ user_data' = [user_data EXCEPT ![u].waiting_for_custom_thumbnail = TRUE]
                 /\ session_file' = save_data(user_data')
                 /\ Return("conv", u, WAITING_FOR_THUMBNAIL_SELECTION)
                 /\ last' = Last(u, "select_thumbnail", "custom_requested", <<Reply, Mut, Save>>)
                 /\ UNCHANGED <<post_history, posts_file, files, dirs, next_dir, DEBUG_MODE,
                                AUTO_START, sent_posts, clock>>
       ELSE IF StartsWithThumbnail(data)
       THEN LET parsed == ParseIndex(data)
                thumb_index == parsed[2]
                picked == ListIndex(user_data[u].thumbnails, thumb_index)
            IN  IF ~parsed[1]
                THEN ReplyOnly("conv", u, "select_thumbnail", "invalid",
                               WAITING_FOR_THUMBNAIL_SELECTION, x = "ok")
                ELSE IF thumb_index >= Len(user_data[u].thumbnails)
                THEN ReplyOnly("conv", u, "select_thumbnail", "invalid",
                               WAITING_FOR_THUMBNAIL_SELECTION, x = "ok")
                ELSE IF ~picked[1]
                THEN ReplyOnly("conv", u, "select_thumbnail", "invalid",
                               WAITING_FOR_THUMBNAIL_SELECTION, x = "ok")
                ELSE /\ user_data' = [user_data EXCEPT ![u].thumbnail_path = picked[2]]
                     /\ IF x = "edit_fails"
                        THEN /\ Keep
                             /\ UNCHANGED session_file
                             /\ last' = Last(u, "select_thumbnail", "raised", <<Mut>>)
                        ELSE /\ Return("conv", u, WAITING_FOR_URL)
                             /\ session_file' = save_data(user_data')
                             /\ last' = Last(u, "select_thumbnail", "selected", <<Mut, Reply, Save>>)
                     /\ UNCHANGED <<post_history, posts_file, files, dirs, next_dir, DEBUG_MODE,
                                    AUTO_START, sent_posts, clock>>
       ELSE ReplyOnly("conv", u, "select_thumbnail", "invalid",
                      WAITING_FOR_THUMBNAIL_SELECTION, x = "ok")

\* extract_thumbnail(video_path, thumbnail_path, position): the video has to
\* be there to be opened, and the extraction itself may fail.
extract_thumbnail(video_path, extracted) == video_path \in files /\ extracted

\* The session after a successful custom extraction: thumbnail_path is set
\* and 'waiting_for_custom_thumbnail' is popped.
CustomSelected_keeps_flag(sess, path) == [sess EXCEPT !.thumbnail_path = path]

CustomSelected(sess, path) ==
    [sess EXCEPT !.thumbnail_path = path, !.waiting_for_custom_thumbnail = FALSE]

\* if position < 0 or position > 100
OutOfRange_above_only(position) == position > 100

OutOfRange(position) == position < 0 \/ position > 100

\* x: "ok", "early" (a reply before the extraction raises) or "late" (a reply
\* after the session was saved raises).
handle_custom_thumbnail(u, text, x, extracted) ==
    /\ UNCHANGED <<terabox, bcast, transfer, loop, link>>
    /\ Route(u, "text", text) = <<"conv", "handle_custom_thumbnail">>
    /\ IF ~check_admin(u)
       THEN Unauthorized("conv", u, "handle_custom_thumbnail")
       ELSE IF u \notin DOMAIN user_data \/ ~user_data[u].waiting_for_custom_thumbnail
       THEN ReplyOnly("conv", u, "handle_custom_thumbnail", "no_session", END, x = "ok")
       ELSE LET parsed == ParseFloat(text)
                position == parsed[2]
                video_path == user_data[u].video_path
                custom_thumbnail_path == CustomPath(DirOf(video_path))
            IN  IF ~parsed[1]
                THEN ReplyOnly("conv", u, "handle_custom_thumbnail", "not_a_number",
                               WAITING_FOR_THUMBNAIL_SELECTION, x = "ok")
                ELSE IF OutOfRange(position)
                THEN ReplyOnly("conv", u, "handle_custom_thumbnail", "out_of_range",
                               WAITING_FOR_THUMBNAIL_SELECTION, x = "ok")
                ELSE IF x = "early"
                THEN ReplyOnly("conv", u, "handle_custom_thumbnail", "raised", conv[u], FALSE)
                ELSE IF ~extract_thumbnail(video_path, extracted)
                THEN /\ IF x = "ok"
                        THEN /\ Return("conv", u, WAITING_FOR_THUMBNAIL_SELECTION)
                             /\ last' = Last(u, "handle_custom_thumbnail", "extraction_failed",
                                             <<Reply, Reply>>)
                        ELSE /\ Keep
                             /\ last' = Last(u, "handle_custom_thumbnail", "raised", <<Reply>>)
                     /\ UNCHANGED <<user_data, session_file, post_history, posts_file, files,
                                    dirs, next_dir, DEBUG_MODE, AUTO_START, sent_posts, clock>>
                ELSE /\ files' = files \cup {custom_thumbnail_path}
                     /\ user_data' = [user_data EXCEPT
                                        ![u] = CustomSelected(@, custom_thumbnail_path)]
                     /\ session_file' = save_data(user_data')
                     /\ IF x = "ok"
                        THEN /\ Return("conv", u, WAITING_FOR_URL)
                             /\ last' = Last(u, "handle_custom_thumbnail", "selected",
                                             <<Reply, Mut, Save, Reply, Reply>>)
                        ELSE /\ Keep
                             /\ last' = Last(u, "handle_custom_thumbnail", "raised",
                                             <<Reply, Mut, Save>>)
                     /\ UNCHANGED <<post_history, posts_file, dirs, next_dir, DEBUG_MODE,
                                    AUTO_START, sent_posts, clock>>

\* process_url returning WAITING_FOR_CHANNEL_SELECTION after a valid URL.
process_url_skips_caption(u, text, replied) ==
    /\ UNCHANGED <<terabox, bcast, transfer, loop, link>>
    /\ Route(u, "text", text) = <<"conv", "process_url">>
    /\ IF ~check_admin(u)
       THEN Unauthorized("conv", u, "process_url")
       ELSE LET url == Strip(text)
            IN  IF u \notin DOMAIN user_data
                THEN ReplyOnly("conv", u, "process_url", "no_session", END, replied)
                ELSE IF ~StartsWithHttp(url)
                THEN ReplyOnly("conv", u, "process_url", "invalid_url", WAITING_FOR_URL, replied)
                ELSE /\ user_data' = [user_data EXCEPT ![u].url = url]
                     /\ session_file' = save_data(user_data')
                     /\ IF replied
                        THEN /\ Return("conv", u, WAITING_FOR_CHANNEL_SELECTION)
                             /\ last' = Last(u, "process_url", "ok", <<Mut, Save, Reply>>)
                        ELSE /\ Keep
                             /\ last' = Last(u, "process_url", "raised", <<Mut, Save>>)
                     /\ UNCHANGED <<post_history, posts_file, files, dirs, next_dir, DEBUG_MODE,
                                    AUTO_START, sent_posts, clock>>

process_url(u, text, replied) ==
    /\ UNCHANGED <<terabox, bcast, transfer, loop, link>>
    /\ Route(u, "text", text) = <<"conv", "process_url">>
    /\ IF ~check_admin(u)
       THEN Unauthorized("conv", u, "process_url")
       ELSE LET url == Strip(text)
            IN  IF u \notin DOMAIN user_data
                THEN ReplyOnly("conv", u, "process_url", "no_session", END, replied)
                ELSE IF ~StartsWithHttp(url)
                THEN ReplyOnly("conv", u, "process_url", "invalid_url", WAITING_FOR_URL, replied)
                ELSE /\ user_data' = [user_data EXCEPT ![u].url = url]
                     /\ session_file' = save_data(user_data')
                     /\ IF replied
                        THEN /\ Return("conv", u, WAITING_FOR_CAPTION)
                             /\ last' = Last(u, "process_url", "ok", <<Mut, Save, Reply>>)
                        ELSE /\ Keep
                             /\ last' = Last(u, "process_url", "raised", <<Mut, Save>>)
                     /\ UNCHANGED <<post_history, posts_file, files, dirs, next_dir, DEBUG_MODE,
                                    AUTO_START, sent_posts, clock>>

process_caption(u, text, replied) ==
    /\ UNCHANGED <<terabox, bcast, transfer, loop, link>>
    /\ Route(u, "text", text) = <<"conv", "process_caption">>
    /\ IF ~check_admin(u)
       THEN Unauthorized("conv", u, "process_caption")
       ELSE IF u \notin DOMAIN user_data
       THEN ReplyOnly("conv", u, "process_caption", "no_session", END, replied)
       ELSE /\ user_data' = [user_data EXCEPT ![u].caption = text]
            /\ session_file' = save_data(user_data')
            /\ IF replied
               THEN /\ Return("conv", u, WAITING_FOR_CHANNEL_SELECTION)
                    /\ last' = Last(u, "process_caption", "ok", <<Mut, Save, Reply>>)
               ELSE /\ Keep
                    /\ last' = Last(u, "process_caption", "raised", <<Mut, Save>>)
            /\ UNCHANGED <<post_history, posts_file, files, dirs, next_dir, DEBUG_MODE,
                           AUTO_START, sent_posts, clock>>

\* ------------------------------------------------------------------ publish
\* add_to_post_history's entry; saved_thumbnail is the copy below
\* temp/history, named after the second it is made in, or nothing when the
\* copy fails.
post_entry(now, channel, caption, url, saved_thumbnail) ==
    [timestamp |-> now, channel |-> channel, caption |-> caption, url |-> url,
     thumbnail_path |-> saved_thumbnail]

\* add_to_post_history without the append.
add_to_post_history_no_append(history, entry) == history

\* post_history.append(post_entry)
add_to_post_history(history, entry) == Append(history, entry)

\* x: "ok", "answer_fails" (query.answer raises), "edit_fails" (the first
\* query.edit_message_text raises), "post_rejected" (send_photo raises) or
\* "reply_fails" (the confirmation reply raises).  handled: the
\* edit_message_text of the except block does not raise.  copied: the copy
\* of the thumbnail into temp/history succeeds.  now: the reading of
\* datetime.now(); a publish happens in a later second than the one before.
PublishOutcomes == {"ok", "answer_fails", "edit_fails", "post_rejected", "reply_fails"}

\* The inputs <<x, handled, copied>> that make a difference to
\* select_channel_and_post.
PublishInputs(u, data) ==
    IF u = ADMIN_USER_ID /\ u \in DOMAIN user_data /\ data.s \in {CALLBACK_MOVIES, CALLBACK_STUFF}
    THEN {<<x, handled, TRUE>> : x \in {"edit_fails", "post_rejected"}, handled \in BOOLEAN}
           \cup {<<"reply_fails", handled, copied>> : handled \in BOOLEAN, copied \in BOOLEAN}
           \cup {<<"ok", TRUE, copied>> : copied \in BOOLEAN}
           \cup {<<"answer_fails", TRUE, TRUE>>}
    ELSE {<<x, TRUE, TRUE>> : x \in {"ok", "answer_fails", "edit_fails"}}

\* select_channel_and_post with STUFF_CHANNEL as the channel of every choice
\* that is not CALLBACK_MOVIES.
select_channel_and_post_default_channel(u, data, x, handled, copied, now) ==
    /\ UNCHANGED <<terabox, bcast, transfer, loop, link>>
    /\ Route(u, "callback", data) = <<"conv", "select_channel_and_post">>
    /\ IF x = "answer_fails"
       THEN ReplyOnly("conv", u, "select_channel_and_post", "raised", conv[u], FALSE)
       ELSE IF u # ADMIN_USER_ID
       THEN ReplyOnly("conv", u, "select_channel_and_post", "unauthorized", END, x # "edit_fails")
       ELSE IF u \notin DOMAIN user_data
       THEN ReplyOnly("conv", u, "select_channel_and_post", "no_session", END, x # "edit_fails")
       ELSE IF user_data[u].thumbnail_path = NoPath \/ user_data[u].url = Absent
                 \/ user_data[u].caption = Absent
       THEN ReplyOnly("conv", u, "select_channel_and_post", "missing_data", END, x # "edit_fails")
       ELSE LET channel == IF data.s = CALLBACK_MOVIES THEN MOVIES_CHANNEL ELSE STUFF_CHANNEL
                thumbnail_path == user_data[u].thumbnail_path
                url == user_data[u].url
                caption == user_data[u].caption
                saved_thumbnail == IF copied THEN HistoryPath(now) ELSE NoPath
                copy == IF copied THEN {HistoryPath(now)} ELSE {}
            IN  IF x \in {"edit_fails", "post_rejected"} \/ thumbnail_path \notin files
                THEN /\ IF handled THEN Return("conv", u, END) ELSE Keep
                     /\ last' = Last(u, "select_channel_and_post",
                                     IF x = "post_rejected" /\ thumbnail_path \in files
                                     THEN "post_rejected" ELSE "post_failed",
                                     (IF x = "edit_fails" THEN << >> ELSE <<Reply>>)
                                       \o (IF handled THEN <<Reply>> ELSE << >>))
                     /\ UNCHANGED <<user_data, session_file, post_history, posts_file, files,
                                    dirs, next_dir, DEBUG_MODE, AUTO_START, sent_posts, clock>>
                ELSE /\ Len(sent_posts) < MaxPosts
                     /\ clock' = now
                     /\ sent_posts' = Append(sent_posts,
                                             [session |-> DirOf(user_data[u].video_path),
                                              channel |-> channel])
                     /\ post_history' = add_to_post_history(post_history,
                                            post_entry(now, channel, caption, url, saved_thumbnail))
                     /\ posts_file' = save_data(post_history')
                     /\ IF x = "reply_fails"
                        THEN /\ IF handled THEN Return("conv", u, END) ELSE Keep
                             /\ files' = files \cup copy
                             /\ UNCHANGED <<user_data, session_file>>
                             /\ last' = Last(u, "select_channel_and_post", "posted_then_failed",
                                             <<Reply, Post, History>>
                                               \o (IF handled THEN <<Reply>> ELSE << >>))
                        ELSE /\ Return("conv", u, END)
                             /\ files' = try_delete_files(files \cup copy,
                                            {user_data[u].video_path}
                                              \cup (Range(user_data[u].thumbnails) \ {thumbnail_path}))
                             /\ user_data' = Del(user_data, u)
                             /\ session_file' = save_data(user_data')
                             /\ last' = Last(u, "select_channel_and_post", "posted",
                                             <<Reply, Post, History, Reply, Mut, Save>>)
                     /\ UNCHANGED <<dirs, next_dir, DEBUG_MODE, AUTO_START>>

\* select_channel_and_post without the check that thumbnail, URL and caption
\* are all there.
select_channel_and_post_no_data_check(u, data, x, handled, copied, now) ==
    /\ UNCHANGED <<terabox, bcast, transfer, loop, link>>
    /\ Route(u, "callback", data) = <<"conv", "select_channel_and_post">>
    /\ IF x = "answer_fails"
       THEN ReplyOnly("conv", u, "select_channel_and_post", "raised", conv[u], FALSE)
       ELSE IF u # ADMIN_USER_ID
       THEN ReplyOnly("conv", u, "select_channel_and_post", "unauthorized", END, x # "edit_fails")
       ELSE IF u \notin DOMAIN user_data
       THEN ReplyOnly("conv", u, "select_channel_and_post", "no_session", END, x # "edit_fails")
       ELSE IF data.s \notin {CALLBACK_MOVIES, CALLBACK_STUFF}
       THEN ReplyOnly("conv", u, "select_channel_and_post", "invalid",
                      WAITING_FOR_CHANNEL_SELECTION, x # "edit_fails")
       ELSE LET channel == IF data.s = CALLBACK_MOVIES THEN MOVIES_CHANNEL ELSE STUFF_CHANNEL
                thumbnail_path == user_data[u].thumbnail_path
                url == user_data[u].url
                caption == user_data[u].caption
                saved_thumbnail == IF copied THEN HistoryPath(now) ELSE NoPath
                copy == IF copied THEN {HistoryPath(now)} ELSE {}
            IN  IF x \in {"edit_fails", "post_rejected"} \/ thumbnail_path \notin files
                THEN /\ IF handled THEN Return("conv", u, END) ELSE Keep
                     /\ last' = Last(u, "select_channel_and_post",
                                     IF x = "post_rejected" /\ thumbnail_path \in files
                                     THEN "post_rejected" ELSE "post_failed",
                                     (IF x = "edit_fails" THEN << >> ELSE <<Reply>>)
                                       \o (IF handled THEN <<Reply>> ELSE << >>))
                     /\ UNCHANGED <<user_data, session_file, post_history, posts_file, files,
                                    dirs, next_dir, DEBUG_MODE, AUTO_START, sent_posts, clock>>
                ELSE /\ Len(sent_posts) < MaxPosts
                     /\ clock' = now
                     /\ sent_posts' = Append(sent_posts,
                                             [session |-> DirOf(user_data[u].video_path),
                                              channel |-> channel])
                     /\ post_history' = add_to_post_history(post_history,
                                            post_entry(now, channel, caption, url, saved_thumbnail))
                     /\ posts_file' = save_data(post_history')
                     /\ IF x = "reply_fails"
                        THEN /\ IF handled THEN Return("conv", u, END) ELSE Keep
                             /\ files' = files \cup copy
                             /\ UNCHANGED <<user_data, session_file>>
                             /\ last' = Last(u, "select_channel_and_post", "posted_then_failed",
                                             <<Reply, Post, History>>
                                               \o (IF handled THEN <<Reply>> ELSE << >>))
                        ELSE /\ Return("conv", u, END)
                             /\ files' = try_delete_files(files \cup copy,
                                            {user_data[u].video_path}
                                              \cup (Range(user_data[u].thumbnails) \ {thumbnail_path}))
                             /\ user_data' = Del(user_data, u)
                             /\ session_file' = save_data(user_data')
                             /\ last' = Last(u, "select_channel_and_post", "posted",
                                             <<Reply, Post, History, Reply, Mut, Save>>)
                     /\ UNCHANGED <<dirs, next_dir, DEBUG_MODE, AUTO_START>>

select_channel_and_post(u, data, x, handled, copied, now) ==
    /\ UNCHANGED <<terabox, bcast, transfer, loop, link>>
    /\ Route(u, "callback", data) = <<"conv", "select_channel_and_post">>
    /\ IF x = "answer_fails"
       THEN ReplyOnly("conv", u, "select_channel_and_post", "raised", conv[u], FALSE)
       ELSE IF u # ADMIN_USER_ID
       THEN ReplyOnly("conv", u, "select_channel_and_post", "unauthorized", END, x # "edit_fails")
       ELSE IF u \notin DOMAIN user_data
       THEN ReplyOnly("conv", u, "select_channel_and_post", "no_session", END, x # "edit_fails")
       ELSE IF data.s \notin {CALLBACK_MOVIES, CALLBACK_STUFF}
       THEN ReplyOnly("conv", u, "select_channel_and_post", "invalid",
                      WAITING_FOR_CHANNEL_SELECTION, x # "edit_fails")
       ELSE IF user_data[u].thumbnail_path = NoPath \/ user_data[u].url = Absent
                 \/ user_data[u].caption = Absent
       THEN ReplyOnly("conv", u, "select_channel_and_post", "missing_data", END, x # "edit_fails")
       ELSE LET channel == IF data.s = CALLBACK_MOVIES THEN MOVIES_CHANNEL ELSE STUFF_CHANNEL
                thumbnail_path == user_data[u].thumbnail_path
                url == user_data[u].url
                caption == user_data[u].caption
                saved_thumbnail == IF copied THEN HistoryPath(now) ELSE NoPath
                copy == IF copied THEN {HistoryPath(now)} ELSE {}
            IN  IF x \in {"edit_fails", "post_rejected"} \/ thumbnail_path \notin files
                THEN /\ IF handled THEN Return("conv", u, END) ELSE Keep
                     /\ last' = Last(u, "select_channel_and_post",
                                     IF x = "post_rejected" /\ thumbnail_path \in files
                                     THEN "post_rejected" ELSE "post_failed",
                                     (IF x = "edit_fails" THEN << >> ELSE <<Reply>>)
                                       \o (IF handled THEN <<Reply>> ELSE << >>))
                     /\ UNCHANGED <<user_data, session_file, post_history, posts_file, files,
                                    dirs, next_dir, DEBUG_MODE, AUTO_START, sent_posts, clock>>
                ELSE /\ Len(sent_posts) < MaxPosts
                     /\ clock' = now
                     /\ sent_posts' = Append(sent_posts,
                                             [session |-> DirOf(user_data[u].video_path),
                                              channel |-> channel])
                     /\ post_history' = add_to_post_history(post_history,
                                            post_entry(now, channel, caption, url, saved_thumbnail))
                     /\ posts_file' = save_data(post_history')
                     /\ IF x = "reply_fails"
                        THEN /\ IF handled THEN Return("conv", u, END) ELSE Keep
                             /\ files' = files \cup copy
                             /\ UNCHANGED <<user_data, session_file>>
                             /\ last' = Last(u, "select_channel_and_post", "posted_then_failed",
                                             <<Reply, Post, History>>
                                               \o (IF handled THEN <<Reply>> ELSE << >>))
                        ELSE /\ Return("conv", u, END)
                             /\ files' = try_delete_files(files \cup copy,
                                            {user_data[u].video_path}
                                              \cup (Range(user_data[u].thumbnails) \ {thumbnail_path}))
                             /\ user_data' = Del(user_data, u)
                             /\ session_file' = save_data(user_data')
                             /\ last' = Last(u, "select_channel_and_post", "posted",
                                             <<Reply, Post, History, Reply, Mut, Save>>)
                     /\ UNCHANGED <<dirs, next_dir, DEBUG_MODE, AUTO_START>>

\* ------------------------------------------------------------- environment
\* The process stops between two updates and main() runs again: the two
\* pickle files are loaded, the conversations and the settings start anew.
Restart ==
    /\ UNCHANGED <<terabox, bcast, transfer, loop, link>>
    /\ user_data' = load_data(session_file)
    /\ post_history' = load_data(posts_file)
    /\ conv' = [u \in Users |-> END]
    /\ bconv' = [u \in Users |-> END]
    /\ DEBUG_MODE' = FALSE
    /\ AUTO_START' = TRUE
    /\ last' = Last(0, "main", "restart", << >>)
    /\ UNCHANGED <<session_file, posts_file, files, dirs, next_dir, sent_posts, clock>>

\* The update reaches handler h.
Routed(u, kind, arg, h) == Route(u, kind, arg)[2] = h

Next ==
    \/ \E u \in Users : start(u)
    \/ \E u \in Users : toggle_debug(u)
    \/ \E u \in Users : toggle_autostart(u)
    \/ \E u \in Users : cleanup_command(u)
    \/ \E u \in Users, replied \in BOOLEAN : broadcast_command(u, replied)
    \/ \E u \in Users, text \in Captions :
          /\ Routed(u, "text", text, "process_broadcast_message")
          /\ \E delivered \in SUBSET {MOVIES_CHANNEL, STUFF_CHANNEL}, replied \in BOOLEAN :
                process_broadcast_message(u, text, delivered, replied)
    \/ \E u \in Users, replied \in BOOLEAN : cancel(u, replied)
    \/ \E u \in Users, size \in VideoSizes :
          /\ Routed(u, "video", size, "process_video")
          /\ \E in \in VideoInputs(u, size) :
                process_video(u, size, in[1], in[2], in[3], in[4])
    \/ \E u \in Users, data \in CallbackData :
          /\ Routed(u, "callback", data, "select_thumbnail")
          /\ \E x \in {"ok", "answer_fails", "edit_fails"} : select_thumbnail(u, data, x)
    \/ \E u \in Users, text \in Texts :
          /\ Routed(u, "text", text, "handle_custom_thumbnail")
          /\ \E x \in {"ok", "early", "late"}, extracted \in BOOLEAN :
                handle_custom_thumbnail(u, text, x, extracted)
    \/ \E u \in Users, text \in Texts, replied \in BOOLEAN : process_url(u, text, replied)
    \/ \E u \in Users, text \in Captions, replied \in BOOLEAN : process_caption(u, text, replied)
    \/ \E u \in Users, data \in CallbackData :
          /\ Routed(u, "callback", data, "select_channel_and_post")
          /\ \E in \in PublishInputs(u, data) :
                select_channel_and_post(u, data, in[1], in[2], in[3], clock + 1)
    \/ \E u \in Users, c \in Commands : Dropped(u, "command", c)
    \/ \E u \in Users : Dropped(u, "text", "abc")
    \/ \E u \in Users : Dropped(u, "video", 1)
    \/ \E u \in Users : Dropped(u, "callback", [s |-> "noop", n |-> 0])
    \/ Restart

Spec == Init /\ [][Next]_vars

\* ------------------------------------------------- the publish handler alone
\* select_channel_and_post run on any session: the sessions the workflow
\* leaves at channel selection hold thumbnail, URL and caption, so the guard
\* at its top is only exercised by sessions with a field missing.
PublishSessions ==
    {[NewSession(1) EXCEPT !.thumbnails = Extracted(1, {0, 2, 4}, 5),
                           !.thumbnail_path = t, !.url = r, !.caption = c,
                           !.waiting_for_custom_thumbnail = w] :
        t \in {NoPath, ThumbPath(1, 0), CustomPath(1)},
        r \in {Absent, "http://a"}, c \in {Absent, "abc"}, w \in BOOLEAN}

InitPublish ==
    /\ user_data \in {Put(<< >>, ADMIN_USER_ID, sess) : sess \in PublishSessions}
    /\ session_file = save_data(user_data)
    /\ post_history = << >>
    /\ posts_file = << >>
    /\ conv = [u \in Users |->
                 IF u = ADMIN_USER_ID THEN WAITING_FOR_CHANNEL_SELECTION ELSE END]
    /\ bconv = [u \in Users |-> END]
    /\ files = {VideoPath(1)} \cup Range(user_data[ADMIN_USER_ID].thumbnails)
                 \cup ({user_data[ADMIN_USER_ID].thumbnail_path} \ {NoPath})
    /\ dirs = {1}
    /\ next_dir = 1
    /\ DEBUG_MODE \in BOOLEAN
    /\ AUTO_START \in BOOLEAN
    /\ sent_posts = << >>
    /\ clock = 0
    /\ last = Last(0, "none", "none", << >>)
    /\ terabox = Idle
    /\ bcast = NoBroadcast
    /\ transfer = NoTransfer
    /\ loop = NoUpdates
    /\ link = NoLink

NextPublish ==
    \E u \in Users, data \in CallbackData :
        /\ Routed(u, "callback", data, "select_channel_and_post")
        /\ \E in \in PublishInputs(u, data) :
              select_channel_and_post(u, data, in[1], in[2], in[3], clock + 1)

SpecPublish == InitPublish /\ [][NextPublish]_vars

\* ------------------------------------------- a session left from earlier
\* The directory mkdtemp made for an acquisition before the ones counted by
\* next_dir.
LeftoverDir == -1

\* The state after an acquisition into LeftoverDir went through thumbnail,
\* URL and caption and its post was rejected: the conversation is over and
\* the session and its files are still there.
InitLeftover ==
    /\ user_data = Put(<< >>, ADMIN_USER_ID,
                       [NewSession(LeftoverDir) EXCEPT
                           !.thumbnails = Extracted(LeftoverDir, {0, 2, 4}, 5),
                           !.thumbnail_path = ThumbPath(LeftoverDir, 0),
                           !.url = "http://a", !.caption = "abc"])
    /\ session_file = save_data(user_data)
    /\ post_history = << >>
    /\ posts_file = << >>
    /\ conv = [u \in Users |-> END]
    /\ bconv = [u \in Users |-> END]
    /\ files = {VideoPath(LeftoverDir)} \cup Range(user_data[ADMIN_USER_ID].thumbnails)
    /\ dirs = {LeftoverDir}
    /\ next_dir = 0
    /\ DEBUG_MODE = FALSE
    /\ AUTO_START = TRUE
    /\ sent_posts = << >>
    /\ clock = 0
    /\ last = Last(ADMIN_USER_ID, "select_channel_and_post", "post_rejected", <<Reply, Reply>>)
    /\ terabox = Idle
    /\ bcast = NoBroadcast
    /\ transfer = NoTransfer
    /\ loop = NoUpdates
    /\ link = NoLink

\* The admin's updates of the posting workflow, /cleanup and the restart.
NextWorkflow ==
    \/ cleanup_command(ADMIN_USER_ID)
    \/ \E replied \in BOOLEAN : cancel(ADMIN_USER_ID, replied)
    \/ \E size \in VideoSizes :
          /\ Routed(ADMIN_USER_ID, "video", size, "process_video")
          /\ \E in \in VideoInputs(ADMIN_USER_ID, size) :
                process_video(ADMIN_USER_ID, size, in[1], in[2], in[3], in[4])
    \/ \E data \in CallbackData :
          /\ Routed(ADMIN_USER_ID, "callback", data, "select_thumbnail")
          /\ \E x \in {"ok", "answer_fails", "edit_fails"} :
                select_thumbnail(ADMIN_USER_ID, data, x)
    \/ \E text \in Texts :
          /\ Routed(ADMIN_USER_ID, "text", text, "handle_custom_thumbnail")
          /\ \E x \in {"ok", "early", "late"}, extracted \in BOOLEAN :
                handle_custom_thumbnail(ADMIN_USER_ID, text, x, extracted)
    \/ \E text \in Texts, replied \in BOOLEAN : process_url(ADMIN_USER_ID, text, replied)
    \/ \E text \in Captions, replied \in BOOLEAN : process_caption(ADMIN_USER_ID, text, replied)
    \/ \E data \in CallbackData :
          /\ Routed(ADMIN_USER_ID, "callback", data, "select_channel_and_post")
          /\ \E in \in PublishInputs(ADMIN_USER_ID, data) :
                select_channel_and_post(ADMIN_USER_ID, data, in[1], in[2], in[3], clock + 1)
    \/ Restart

\* The posting workflow of a program that started empty or with the session
\* left from earlier.
SpecLeftover == (Init \/ InitLeftover) /\ [][NextWorkflow]_vars

\* -------------------------------------------- src/main.py: handle_message
BotVars == <<user_data, session_file, post_history, posts_file, conv, bconv, files, dirs,
             next_dir, DEBUG_MODE, AUTO_START, sent_posts, clock, last>>

\* An entry of terabox.log: a requests.get of a provider with what it came to,
\* or a time.sleep(2) between two tries of a provider.
Request(provider, o) == <<"request", provider, o>>
Sleep(provider) == <<"sleep", provider, "">>

\* The while condition of a provider's loop is false.
Exhausted_after_one_try(retries) == retries < max_retries

Exhausted(retries) == ~(retries > 0)

\* The except clause that retries: requests.exceptions.Timeout only.
Retried_any_failure(o) == o \in {"timeout", "error"}

Retried(o) == o = "timeout"

\* The values fetch_video returns.
Success_tagged_primary(d, source) == [success |-> TRUE, data |-> d, source |-> "primary"]

Success(d, source) == [success |-> TRUE, data |-> d, source |-> source]

Failure_with_data ==
    [success |-> FALSE, error |-> BothFailed,
     data |-> [missing |-> TRUE, downloadLink |-> Absent, size |-> 0]]

Failure == [success |-> FALSE, error |-> BothFailed]

\* What get_chat_member comes to in is_user_member: the status of the chat
\* member, or "error" when the call raises.
Lookups == {"member", "administrator", "creator", "restricted", "left", "kicked", "error"}

\* is_user_member with a failed lookup taken as "not a member".
is_user_member_error_blocks(lookup) == lookup \in {"member", "administrator", "creator"}

\* is_user_member: the status is one of member, administrator, creator; a
\* lookup that raises is logged and answered with True.
is_user_member(lookup) ==
    IF lookup = "error" THEN TRUE ELSE lookup \in {"member", "administrator", "creator"}

\* handle_message up to the call of fetch_video: the membership check, the
\* extraction of the id, the "Fetching video link..." reply.
handle_message(lookup, video_id) ==
    /\ terabox.pc \in {"idle", "done", "raised"}
    /\ LET t == [Idle EXCEPT !.lookup = lookup]
       IN  terabox' =
             IF ~is_user_member(lookup)
             THEN [t EXCEPT !.pc = "done", !.replies = <<"join_channel">>]
             ELSE IF video_id = ""
             THEN [t EXCEPT !.pc = "done", !.replies = <<"invalid_link">>]
             ELSE [t EXCEPT !.pc = "primary", !.primary_retries = max_retries,
                            !.replies = <<"fetching">>]
    /\ UNCHANGED <<BotVars, bcast, transfer, loop, link>>

\* fetch_video left the primary loop without returning: it enters the
\* fallback loop.
EnterFallback(t) == [t EXCEPT !.pc = "fallback", !.fallback_retries = max_retries]

\* One pass of the primary loop of fetch_video: a request and what follows it
\* up to the next request, sleep or return.
fetch_video_primary(o, d) ==
    /\ terabox.pc = "primary"
    /\ LET t == [terabox EXCEPT !.log = Append(@, Request("primary", o))]
       IN  terabox' =
             IF o = "success"
             THEN [t EXCEPT !.pc = "returned", !.result = Success(d, "primary")]
             ELSE IF Retried(o)
             THEN LET left == t.primary_retries - 1
                  IN  IF ~Exhausted(left)
                      THEN [t EXCEPT !.primary_retries = left, !.pc = "primary_sleep"]
                      ELSE EnterFallback([t EXCEPT !.primary_retries = left])
             ELSE EnterFallback(t)
    /\ UNCHANGED <<BotVars, bcast, transfer, loop, link>>

\* time.sleep(2) before the next try of the primary provider.
fetch_video_primary_sleep ==
    /\ terabox.pc = "primary_sleep"
    /\ terabox' = [terabox EXCEPT !.log = Append(@, Sleep("primary")), !.pc = "primary"]
    /\ UNCHANGED <<BotVars, bcast, transfer, loop, link>>

\* One pass of the fallback loop of fetch_video.
fetch_video_fallback(o, d) ==
    /\ terabox.pc = "fallback"
    /\ LET t == [terabox EXCEPT !.log = Append(@, Request("fallback", o))]
       IN  terabox' =
             IF o = "success"
             THEN [t EXCEPT !.pc = "returned", !.result = Success(d, "fallback")]
             ELSE IF Retried(o)
             THEN LET left == t.fallback_retries - 1
                  IN  IF ~Exhausted(left)
                      THEN [t EXCEPT !.fallback_retries = left, !.pc = "fallback_sleep"]
                      ELSE [t EXCEPT !.fallback_retries = left, !.pc = "returned",
                                     !.result = Failure]
             ELSE [t EXCEPT !.pc = "returned", !.result = Failure]
    /\ UNCHANGED <<BotVars, bcast, transfer, loop, link>>

\* time.sleep(2) before the next try of the fallback provider.
fetch_video_fallback_sleep ==
    /\ terabox.pc = "fallback_sleep"
    /\ terabox' = [terabox EXCEPT !.log = Append(@, Sleep("fallback")), !.pc = "fallback"]
    /\ UNCHANGED <<BotVars, bcast, transfer, loop, link>>

\* handle_message from the return of fetch_video to the download loop.
handle_message_result ==
    /\ terabox.pc = "returned"
    /\ LET result == terabox.result
       IN  terabox' =
             IF ~result.success
             THEN [terabox EXCEPT !.pc = "done", !.replies = Append(@, "failed_to_fetch")]
             ELSE IF result.data.missing
             THEN [terabox EXCEPT !.pc = "raised"]
             ELSE IF result.data.downloadLink = Absent
             THEN [terabox EXCEPT !.pc = "done", !.replies = Append(@, "no_link")]
             ELSE IF result.data.size > TELEGRAM_SIZE_LIMIT
             THEN [terabox EXCEPT !.pc = "done", !.replies = Append(@, "too_large")]
             ELSE [terabox EXCEPT !.pc = "download"]
    /\ UNCHANGED <<BotVars, bcast, transfer, loop, link>>

\* One pass of the download loop of handle_message.  The wait before the next
\* attempt is asyncio.sleep, and asyncio is not imported in src/main.py: the
\* NameError leaves the loop for the handler's outer except clause.
handle_message_download(ok) ==
    /\ terabox.pc = "download"
    /\ LET t == [terabox EXCEPT !.downloads = @ + 1]
       IN  terabox' =
             IF ok
             THEN [t EXCEPT !.pc = "done", !.replies = Append(@, "video")]
             ELSE IF terabox.downloads = max_download_retries - 1
             THEN [t EXCEPT !.pc = "done", !.replies = Append(@, "download_failed")]
             ELSE [t EXCEPT !.pc = "raised"]
    /\ UNCHANGED <<BotVars, bcast, transfer, loop, link>>

NextFetch ==
    \/ \E lookup \in Lookups, video_id \in {"", "abc"} : handle_message(lookup, video_id)
    \/ \E o \in RequestOutcomes, d \in Datas : fetch_video_primary(o, d)
    \/ fetch_video_primary_sleep
    \/ \E o \in RequestOutcomes, d \in Datas : fetch_video_fallback(o, d)
    \/ fetch_video_fallback_sleep
    \/ handle_message_result
    \/ \E ok \in BOOLEAN : handle_message_download(ok)

SpecFetch == Init /\ [][NextFetch]_vars

\* fetch_video with every step taken in the end: the function runs to its
\* return once called.
SpecFetchFair == SpecFetch /\ WF_vars(NextFetch)

\* ------------------------------------------ extraction at every position
\* process_video with every set of positions at which extract_thumbnail
\* succeeds.
Indices == 0..4

ExtractInputs ==
    {<<"in_loop", S, n, FALSE>> : S \in SUBSET Indices, n \in Indices}
      \cup {<<x, S, 0, FALSE>> : x \in {"after_loop", "after_save", "ok"}, S \in SUBSET Indices}

NextExtract ==
    \E size \in {1} :
        /\ Routed(ADMIN_USER_ID, "video", size, "process_video")
        /\ \E in \in ExtractInputs :
              process_video(ADMIN_USER_ID, size, in[1], in[2], in[3], in[4])

SpecExtract == Init /\ [][NextExtract]_vars

\* ------------------------------------------------ the custom position loop
\* The operator's way to a custom position and through it: an acquisition,
\* presses of the selection buttons, replies to the request for a position.
NextCustom ==
    \/ \E size \in {1} :
          /\ Routed(ADMIN_USER_ID, "video", size, "process_video")
          /\ \E in \in VideoInputs(ADMIN_USER_ID, size) :
                process_video(ADMIN_USER_ID, size, in[1], in[2], in[3], in[4])
    \/ \E data \in CallbackData :
          /\ Routed(ADMIN_USER_ID, "callback", data, "select_thumbnail")
          /\ \E x \in {"ok", "answer_fails", "edit_fails"} :
                select_thumbnail(ADMIN_USER_ID, data, x)
    \/ \E text \in PositionTexts :
          /\ Routed(ADMIN_USER_ID, "text", text, "handle_custom_thumbnail")
          /\ \E x \in {"ok", "early", "late"}, extracted \in BOOLEAN :
                handle_custom_thumbnail(ADMIN_USER_ID, text, x, extracted)

SpecCustom == Init /\ [][NextCustom]_vars

\* ------------------------------------------------------------ the URL step
\* The operator's way to the URL step and through it.
NextUrl ==
    \/ \E size \in {1} :
          /\ Routed(ADMIN_USER_ID, "video", size, "process_video")
          /\ \E in \in VideoInputs(ADMIN_USER_ID, size) :
                process_video(ADMIN_USER_ID, size, in[1], in[2], in[3], in[4])
    \/ \E data \in CallbackData :
          /\ Routed(ADMIN_USER_ID, "callback", data, "select_thumbnail")
          /\ \E x \in {"ok", "answer_fails", "edit_fails"} :
                select_thumbnail(ADMIN_USER_ID, data, x)
    \/ \E text \in UrlTexts, replied \in BOOLEAN : process_url(ADMIN_USER_ID, text, replied)

SpecUrl == Init /\ [][NextUrl]_vars

\* ----------------------------------------- src/main.py: broadcast_message
\* The most users the collection holds.
MaxUsers == 250

\* users_collection.count_documents({}): fewer users than a batch, exactly a
\* batch, several batches.
UserCounts == {3, batch_size, MaxUsers}

Min(a, b) == IF a < b THEN a ELSE b

\* The call: the check of the database connection, the counters, the count of
\* the users, the cursor.
broadcast_message(n, db_connected) ==
    /\ bcast.pc \in {"idle", "returned", "raised"}
    /\ bcast.pc = "returned" => bcast.command # "none"
    /\ bcast' =
         IF ~db_connected
         THEN [NoBroadcast EXCEPT !.pc = "returned",
                                  !.result = [success |-> FALSE,
                                              error |-> "No database connection"]]
         ELSE [NoBroadcast EXCEPT !.pc = "cursor", !.total = n]
    /\ UNCHANGED <<BotVars, terabox, transfer, loop, link>>

\* for user in cursor: batch.append(user), until the batch holds batch_size
\* users or the cursor is at its end.
broadcast_message_read ==
    /\ bcast.pc = "cursor"
    /\ LET take == Min(batch_size - bcast.batch, bcast.total - bcast.read)
           filled == bcast.batch + take
       IN  bcast' = [bcast EXCEPT !.read = @ + take, !.batch = filled, !.pending = filled,
                                  !.pc = IF filled >= batch_size THEN "batch" ELSE "rest"]
    /\ UNCHANGED <<BotVars, terabox, transfer, loop, link>>

\* One send_message to the next user of the batch, inside try/except.
broadcast_message_send(ok) ==
    /\ bcast.pc \in {"batch", "rest"}
    /\ bcast.pending > 0
    /\ bcast' = [bcast EXCEPT !.pending = @ - 1, !.attempted = @ + 1,
                              !.success_count = IF ok THEN @ + 1 ELSE @,
                              !.fail_count = IF ok THEN @ ELSE @ + 1]
    /\ UNCHANGED <<BotVars, terabox, transfer, loop, link>>

\* After a full batch: batch = [], processed += batch_size,
\* await asyncio.sleep(delay).
broadcast_message_batch_done ==
    /\ bcast.pc = "batch"
    /\ bcast.pending = 0
    /\ bcast' = [bcast EXCEPT !.batch = 0, !.processed = @ + batch_size,
                              !.pc = IF asyncio_imported THEN "cursor" ELSE "raised"]
    /\ UNCHANGED <<BotVars, terabox, transfer, loop, link>>

\* After the remaining users: log_activity and the return of the counts.
broadcast_message_return ==
    /\ bcast.pc = "rest"
    /\ bcast.pending = 0
    /\ bcast' = [bcast EXCEPT !.pc = "returned",
                              !.result = [success |-> TRUE, total |-> bcast.total,
                                          sent |-> bcast.success_count,
                                          failed |-> bcast.fail_count]]
    /\ UNCHANGED <<BotVars, terabox, transfer, loop, link>>

\* What /broadcast tells the operator about a result: the counts when the
\* result says success, "Broadcast failed" with the error otherwise.
Reported_when_nothing_failed(result) ==
    IF result.success /\ result.failed = 0 THEN "completed" ELSE "failed"

Reported(result) == IF result.success THEN "completed" ELSE "failed"

\* /broadcast of src/main.py after broadcast_message has returned: the reply
\* to the operator.
broadcast_command_result ==
    /\ bcast.pc = "returned"
    /\ bcast.command = "none"
    /\ bcast' = [bcast EXCEPT !.command = Reported(bcast.result)]
    /\ UNCHANGED <<BotVars, terabox, transfer, loop, link>>

NextBroadcast ==
    \/ \E n \in UserCounts, db_connected \in BOOLEAN : broadcast_message(n, db_connected)
    \/ broadcast_message_read
    \/ \E ok \in BOOLEAN : broadcast_message_send(ok)
    \/ broadcast_message_batch_done
    \/ broadcast_message_return
    \/ broadcast_command_result

SpecBroadcast == Init /\ [][NextBroadcast]_vars

\* ------------------------------------------------- a failing save_session
\* save_data with the outcomes of the disk: the dump is written ("ok"), open
\* raises and the file is as it was ("open_fails"), or the dump raises after
\* open has truncated the file ("dump_fails": load_data finds nothing it can
\* read and returns its default).  save_data returns TRUE only for "ok".
DiskOutcomes == {"ok", "open_fails", "dump_fails"}

SaveUnsaved == "save_failed"

save_data_on(data, on_file, disk) ==
    CASE disk = "ok" -> data
      [] disk = "open_fails" -> on_file
      [] OTHER -> << >>

\* process_url with the disk as an input: the value save_session returns is
\* dropped, the reply and the returned state are the same for every outcome.
process_url_disk(u, text, replied, disk) ==
    /\ UNCHANGED <<terabox, bcast, transfer, loop, link>>
    /\ Route(u, "text", text) = <<"conv", "process_url">>
    /\ IF ~check_admin(u)
       THEN Unauthorized("conv", u, "process_url")
       ELSE LET url == Strip(text)
            IN  IF u \notin DOMAIN user_data
                THEN ReplyOnly("conv", u, "process_url", "no_session", END, replied)
                ELSE IF ~StartsWithHttp(url)
                THEN ReplyOnly("conv", u, "process_url", "invalid_url", WAITING_FOR_URL, replied)
                ELSE /\ user_data' = [user_data EXCEPT ![u].url = url]
                     /\ session_file' = save_data_on(user_data', session_file, disk)
                     /\ LET saved == IF disk = "ok" THEN Save ELSE SaveUnsaved
                        IN  IF replied
                            THEN /\ Return("conv", u, WAITING_FOR_CAPTION)
                                 /\ last' = Last(u, "process_url", "ok", <<Mut, saved, Reply>>)
                            ELSE /\ Keep
                                 /\ last' = Last(u, "process_url", "raised", <<Mut, saved>>)
                     /\ UNCHANGED <<post_history, posts_file, files, dirs, next_dir, DEBUG_MODE,
                                    AUTO_START, sent_posts, clock>>

\* process_caption with the disk as an input.
process_caption_disk(u, text, replied, disk) ==
    /\ UNCHANGED <<terabox, bcast, transfer, loop, link>>
    /\ Route(u, "text", text) = <<"conv", "process_caption">>
    /\ IF ~check_admin(u)
       THEN Unauthorized("conv", u, "process_caption")
       ELSE IF u \notin DOMAIN user_data
       THEN ReplyOnly("conv", u, "process_caption", "no_session", END, replied)
       ELSE /\ user_data' = [user_data EXCEPT ![u].caption = text]
            /\ session_file' = save_data_on(user_data', session_file, disk)
            /\ LET saved == IF disk = "ok" THEN Save ELSE SaveUnsaved
               IN  IF replied
                   THEN /\ Return("conv", u, WAITING_FOR_CHANNEL_SELECTION)
                        /\ last' = Last(u, "process_caption", "ok", <<Mut, saved, Reply>>)
                   ELSE /\ Keep
                        /\ last' = Last(u, "process_caption", "raised", <<Mut, saved>>)
            /\ UNCHANGED <<post_history, posts_file, files, dirs, next_dir, DEBUG_MODE,
                           AUTO_START, sent_posts, clock>>

\* The operator's way to the URL and the caption on a disk that can fail,
\* and a restart of the process.
NextDisk ==
    \/ \E size \in {1} :
          /\ Routed(ADMIN_USER_ID, "video", size, "process_video")
          /\ \E in \in VideoInputs(ADMIN_USER_ID, size) :
                process_video(ADMIN_USER_ID, size, in[1], in[2], in[3], in[4])
    \/ \E data \in CallbackData :
          /\ Routed(ADMIN_USER_ID, "callback", data, "select_thumbnail")
          /\ \E x \in {"ok", "answer_fails", "edit_fails"} :
                select_thumbnail(ADMIN_USER_ID, data, x)
    \/ \E text \in UrlTexts, replied \in BOOLEAN, disk \in DiskOutcomes :
          process_url_disk(ADMIN_USER_ID, text, replied, disk)
    \/ \E text \in Captions, replied \in BOOLEAN, disk \in DiskOutcomes :
          process_caption_disk(ADMIN_USER_ID, text, replied, disk)
    \/ Restart

SpecDisk == Init /\ [][NextDisk]_vars

\* ------------------------------------ download_large_file_with_progress
\* The most chunks a response is read in.
MaxChunks == 4

\* The call up to the chunk loop: get_file, the size check, the progress
\* message, get_url, requests.get, raise_for_status, open.  n: the number
\* of chunks iter_content will yield.
download_large_file_with_progress(n) ==
    /\ transfer.pc \in {"idle", "done"}
    /\ transfer' = [NoTransfer EXCEPT !.pc = "chunks", !.total = n]
    /\ UNCHANGED <<BotVars, terabox, bcast, loop, link>>

\* The function's except clause: the error reply, return False.
DownloadFailed(t) == [t EXCEPT !.pc = "returned", !.result = "False"]

\* await progress_message.edit_text(...) inside the function's try: when it
\* raises, the except clause runs.
AfterEdit(t, edited) ==
    IF edited THEN [t EXCEPT !.edits = @ + 1]
    ELSE DownloadFailed([t EXCEPT !.edit_failed = TRUE])

\* One pass of the chunk loop.  arrived: iter_content yields the chunk (it
\* raises otherwise); due: more than update_interval seconds have passed
\* since the last progress update; edited: edit_text does not raise.
download_chunk(arrived, due, edited) ==
    /\ transfer.pc = "chunks"
    /\ transfer.downloaded < transfer.total
    /\ transfer' =
         IF ~arrived
         THEN DownloadFailed([transfer EXCEPT !.stream_failed = TRUE])
         ELSE LET t == [transfer EXCEPT !.downloaded = @ + 1]
              IN  IF due THEN AfterEdit(t, edited) ELSE t
    /\ UNCHANGED <<BotVars, terabox, bcast, loop, link>>

\* After the loop: the final edit of the progress message, return True.
download_final_edit(edited) ==
    /\ transfer.pc = "chunks"
    /\ transfer.downloaded = transfer.total
    /\ LET t == AfterEdit(transfer, edited)
       IN  transfer' = IF t.pc = "returned" THEN t
                       ELSE [t EXCEPT !.pc = "returned", !.result = "True"]
    /\ UNCHANGED <<BotVars, terabox, bcast, loop, link>>

\* process_video after the call: 'if not download_success' removes the
\* directory with what was written to it and ends the conversation;
\* otherwise the file stays for the extraction.
process_video_download_result ==
    /\ transfer.pc = "returned"
    /\ transfer' = [transfer EXCEPT !.pc = "done",
                                    !.kept = IF transfer.result = "True"
                                             THEN transfer.downloaded ELSE 0]
    /\ UNCHANGED <<BotVars, terabox, bcast, loop, link>>

NextTransfer ==
    \/ \E n \in 1..MaxChunks : download_large_file_with_progress(n)
    \/ \E arrived \in BOOLEAN, due \in BOOLEAN, edited \in BOOLEAN :
          download_chunk(arrived, due, edited)
    \/ \E edited \in BOOLEAN : download_final_edit(edited)
    \/ process_video_download_result

SpecTransfer == Init /\ [][NextTransfer]_vars

\* ------------------------------- src/main.py: the updates of another user
\* The most updates of the other user that are served.
MaxServed == 2

\* The coroutine of the message being handled is inside a call that does not
\* return to the event loop: requests.get (fetch_video, the download loop of
\* handle_message) or time.sleep(2) (fetch_video).  Both are synchronous
\* calls made from 'async def' functions on the thread of the event loop.
InBlockingCall ==
    terabox.pc \in {"primary", "primary_sleep", "fallback", "fallback_sleep", "download"}

\* Another user sends the bot a message: the update waits to be processed.
update_received ==
    /\ ~loop.pending
    /\ loop.served < MaxServed
    /\ loop' = [loop EXCEPT !.pending = TRUE]
    /\ UNCHANGED <<BotVars, terabox, bcast, transfer, link>>

\* The event loop runs the handler of the other user's update.  It can do
\* so only when the thread is not held by a synchronous call.
process_update ==
    /\ loop.pending
    /\ ~InBlockingCall
    /\ loop' = [loop EXCEPT !.pending = FALSE, !.served = @ + 1]
    /\ UNCHANGED <<BotVars, terabox, bcast, transfer, link>>

NextLoop ==
    \/ \E lookup \in Lookups, video_id \in {"", "abc"} : handle_message(lookup, video_id)
    \/ \E o \in RequestOutcomes, d \in Datas : fetch_video_primary(o, d)
    \/ fetch_video_primary_sleep
    \/ \E o \in RequestOutcomes, d \in Datas : fetch_video_fallback(o, d)
    \/ fetch_video_fallback_sleep
    \/ handle_message_result
    \/ \E ok \in BOOLEAN : handle_message_download(ok)
    \/ update_received
    \/ process_update

SpecLoop == Init /\ [][NextLoop]_vars

\* --------------------------------------- src/main.py: extract_terabox_id
\* A text is a sequence of characters.  The characters of the class
\* [a-zA-Z0-9_-] that the texts are made of; every other character ("/",
\* "?", "=", " ", ".") is outside the class.
IdChars == {"h", "s", "a", "1", "x", "i", "d", "_", "-"}

\* The most pieces a text is made of.
MaxPieces == 5

\* The pieces of the texts: a host, the path marker, an identifier, a query,
\* the id parameter, a character that ends an identifier, a space.
Pieces ==
    {<<"h">>, <<"/", "s", "/">>, <<"a", "1">>, <<"?", "x", "=", "1">>, <<"i", "d", "=">>,
     <<".">>, <<" ">>}

RECURSIVE TextsOf(_)
TextsOf(n) ==
    IF n = 0 THEN {<< >>}
    ELSE LET shorter == TextsOf(n - 1)
         IN  shorter \cup {t \o p : t \in shorter, p \in Pieces}

LinkTexts == TextsOf(MaxPieces)

\* text[i..] starts with the characters of `prefix`.
StartsAt(text, i, prefix) ==
    /\ i + Len(prefix) - 1 <= Len(text)
    /\ SubSeq(text, i, i + Len(prefix) - 1) = prefix

\* The longest run of characters of the class that starts at text[i]:
\* what ([a-zA-Z0-9_-]+) matches there, empty when it does not match.
RECURSIVE Group(_, _)
Group(text, i) ==
    IF i > Len(text) \/ text[i] \notin IdChars THEN << >>
    ELSE <<text[i]>> \o Group(text, i + 1)

\* re.search(prefix + "([a-zA-Z0-9_-]+)", text) from position i on: group 1
\* of the leftmost match, or the empty sequence when there is no match (a
\* match is never empty).
RECURSIVE Search(_, _, _)
Search(prefix, text, i) ==
    IF i > Len(text) THEN << >>
    ELSE IF StartsAt(text, i, prefix) /\ Group(text, i + Len(prefix)) # << >>
    THEN Group(text, i + Len(prefix))
    ELSE Search(prefix, text, i + 1)

\* text.strip() for the whitespace the texts have.
RECURSIVE StripSpaces(_)
StripSpaces(text) ==
    IF text = << >> THEN text
    ELSE IF Head(text) = " " THEN StripSpaces(Tail(text))
    ELSE IF text[Len(text)] = " " THEN StripSpaces(SubSeq(text, 1, Len(text) - 1))
    ELSE text

PathPattern == <<"/", "s", "/">>

QueryPattern == <<"i", "d", "=">>

\* extract_terabox_id with the id= pattern tried before the /s/ pattern.
extract_terabox_id_query_first(text) ==
    IF Search(QueryPattern, text, 1) # << >> THEN Search(QueryPattern, text, 1)
    ELSE IF Search(PathPattern, text, 1) # << >> THEN Search(PathPattern, text, 1)
    ELSE StripSpaces(text)

extract_terabox_id(text) ==
    IF Search(PathPattern, text, 1) # << >> THEN Search(PathPattern, text, 1)
    ELSE IF Search(QueryPattern, text, 1) # << >> THEN Search(QueryPattern, text, 1)
    ELSE StripSpaces(text)

\* A message with one of the texts has arrived and extract_terabox_id has
\* not been called on it.
InitId ==
    /\ user_data = << >>
    /\ session_file = << >>
    /\ post_history = << >>
    /\ posts_file = << >>
    /\ conv = [u \in Users |-> END]
    /\ bconv = [u \in Users |-> END]
    /\ files = {}
    /\ dirs = {}
    /\ next_dir = 0
    /\ DEBUG_MODE = FALSE
    /\ AUTO_START = TRUE
    /\ sent_posts = << >>
    /\ clock = 0
    /\ last = Last(0, "none", "none", << >>)
    /\ terabox = Idle
    /\ bcast = NoBroadcast
    /\ transfer = NoTransfer
    /\ loop = NoUpdates
    /\ link \in {[NoLink EXCEPT !.text = text] : text \in LinkTexts}

\* video_id = extract_terabox_id(text) in handle_message.
handle_message_extract ==
    /\ ~link.called
    /\ link' = [link EXCEPT !.video_id = extract_terabox_id(link.text), !.called = TRUE]
    /\ UNCHANGED <<BotVars, terabox, bcast, transfer, loop>>

NextId == handle_message_extract

SpecId == InitId /\ [][NextId]_vars

\* ------------------------------------------- what process_video presents
\* The photo sent for the entry of index i (from 0) of the thumbnails list
\* and its caption "Thumbnail {i+1} (from position {positions[i]*100}%)".
PhotoCaption(thumbnails, i) ==
    [photo |-> thumbnails[i + 1], number |-> i + 1, position |-> positions[i]]

\* The button made for index i of the thumbnails list: "Thumbnail {i+1}"
\* with the callback data "thumbnail_{i}".
Button(i) == [number |-> i + 1, data |-> [s |-> CALLBACK_THUMBNAIL_START, n |-> i]]

\* ================================================================== claims
Admin == ADMIN_USER_ID

HasSession(u) == u \in DOMAIN user_data

\* The step a session's fields say the workflow is at.
StepOf(sess) ==
    CASE sess.thumbnail_path = NoPath -> WAITING_FOR_THUMBNAIL_SELECTION
      [] sess.url = Absent -> WAITING_FOR_URL
      [] sess.caption = Absent -> WAITING_FOR_CAPTION
      [] OTHER -> WAITING_FOR_CHANNEL_SELECTION

\* A valid input of step `step` sent by u reaches the handler of that step.
AcceptsStepInput(u, step) ==
    CASE step = WAITING_FOR_THUMBNAIL_SELECTION ->
            Routed(u, "callback", [s |-> CALLBACK_THUMBNAIL_START, n |-> 0], "select_thumbnail")
      [] step = WAITING_FOR_URL -> Routed(u, "text", " http://a ", "process_url")
      [] step = WAITING_FOR_CAPTION -> Routed(u, "text", "abc", "process_caption")
      [] OTHER ->
            Routed(u, "callback", [s |-> CALLBACK_MOVIES, n |-> 0], "select_channel_and_post")

\* C1: no session is the source of two outbound channel posts.
C1_PublishOnce ==
    \A i, j \in 1..Len(sent_posts) :
        sent_posts[i].session = sent_posts[j].session => i = j

\* C2: after the transport rejected the outbound post, the session is still
\* there with its data and the workflow is at destination selection, so the
\* next destination choice reaches select_channel_and_post.
C2_RejectedPostKeepsStep ==
    (last.handler = "select_channel_and_post" /\ last.result = "post_rejected")
        => /\ HasSession(last.user)
           /\ StepOf(user_data[last.user]) = WAITING_FOR_CHANNEL_SELECTION
           /\ conv[last.user] = WAITING_FOR_CHANNEL_SELECTION
           /\ AcceptsStepInput(last.user, WAITING_FOR_CHANNEL_SELECTION)

\* C3: a run of select_channel_and_post in which the channel accepted the
\* post ends with the session removed from user_data and from the session
\* file and with the conversation ended, whatever fails afterwards.
C3_PostedDestroysSession ==
    (last.handler = "select_channel_and_post" /\ Post \in Range(last.trace))
        => /\ ~HasSession(last.user)
           /\ last.user \notin DOMAIN session_file
           /\ conv[last.user] = END

C5_RestartResumes ==
    last.result = "restart"
        => \A u \in DOMAIN user_data : AcceptsStepInput(u, StepOf(user_data[u]))

\* A reply occurs in the trace while a mutation is not yet saved.
RECURSIVE ReplyWhileUnsaved(_, _)
ReplyWhileUnsaved(tr, dirty) ==
    IF tr = << >> THEN FALSE
    ELSE CASE Head(tr) = Mut -> ReplyWhileUnsaved(Tail(tr), TRUE)
           [] Head(tr) = Save -> ReplyWhileUnsaved(Tail(tr), FALSE)
           [] Head(tr) = Reply -> dirty \/ ReplyWhileUnsaved(Tail(tr), dirty)
           [] OTHER -> ReplyWhileUnsaved(Tail(tr), dirty)

\* C6: in the session-mutating handlers no reply or edit is sent between a
\* mutation of the session and the save_session that persists it.
C6_SaveBeforeReply ==
    last.handler \in {"select_thumbnail", "handle_custom_thumbnail", "process_url",
                      "process_caption", "process_video"}
        => ~ReplyWhileUnsaved(last.trace, FALSE)

\* C7: every step keeps a user's conversation state, moves it to the next
\* state of None -> thumbnail selection -> URL -> caption -> channel
\* selection, or ends the conversation.
C7_ForwardOnly ==
    [][\A u \in Users :
          \/ conv'[u] = conv[u]
          \/ conv'[u] = END
          \/ <<conv[u], conv'[u]>> \in
                {<<END, WAITING_FOR_THUMBNAIL_SELECTION>>,
                 <<WAITING_FOR_THUMBNAIL_SELECTION, WAITING_FOR_URL>>,
                 <<WAITING_FOR_URL, WAITING_FOR_CAPTION>>,
                 <<WAITING_FOR_CAPTION, WAITING_FOR_CHANNEL_SELECTION>>}]_vars

\* C7 witness: a workflow went through every state and ended with a post.
C7_Witness ==
    /\ last.handler = "select_channel_and_post"
    /\ last.result = "posted"
    /\ conv[Admin] = END

\* The fields of a session are filled in order.
InOrder(sess) ==
    /\ sess.caption # Absent => sess.url # Absent
    /\ sess.url # Absent => sess.thumbnail_path # NoPath
    /\ sess.thumbnail_path # NoPath => sess.video_path # NoPath

\* C8: every session in memory and on disk has its fields filled in order,
\* and no step sets the caption of a session without a URL or the URL of a
\* session without a selected thumbnail.
C8_FieldOrder ==
    /\ [](/\ \A u \in DOMAIN user_data : InOrder(user_data[u])
          /\ \A u \in DOMAIN session_file : InOrder(session_file[u]))
    /\ [][\A u \in DOMAIN user_data \cap DOMAIN user_data' :
             user_data'[u].video_path = user_data[u].video_path
                => /\ user_data[u].url = Absent => user_data'[u].caption = Absent
                   /\ user_data[u].thumbnail_path = NoPath => user_data'[u].url = Absent]_vars

\* C8 witness: process_caption filled the last field of a session.
C8_Witness ==
    /\ last.handler = "process_caption"
    /\ last.result = "ok"
    /\ HasSession(Admin)
    /\ user_data[Admin].caption # Absent

C10_CancelAvailable ==
    /\ (HasSession(Admin)
          /\ (conv[Admin] # END
                \/ (last.handler = "select_channel_and_post"
                      /\ last.result \in {"post_rejected", "post_failed"})))
        => Routed(Admin, "command", "cancel", "cancel")
    /\ (last.handler = "cancel" /\ last.result = "ok")
        => /\ ~HasSession(last.user)
           /\ last.user \notin DOMAIN session_file
           /\ conv[last.user] = END

\* C11: a /cancel of the admin that directly follows a run of cancel for
\* the admin finds no session, mutates nothing, and leaves the sessions in
\* memory and on disk, the files and the post history as they were.
C11_CancelTwice ==
    [][(/\ last.handler = "cancel" /\ last.user = Admin
        /\ last'.user = Admin
        /\ (last'.handler = "cancel" \/ last'.result = "dropped"))
          => /\ ~HasSession(Admin)
             /\ UNCHANGED <<user_data, session_file, files, dirs, post_history, posts_file>>
             /\ Mut \notin Range(last'.trace)]_vars

\* C11 witness: cancel has just removed the admin's session and the next
\* /cancel of the admin reaches cancel again (the reply of the first raised,
\* or the broadcast conversation is still open).
C11_Witness ==
    /\ last.handler = "cancel" /\ last.user = Admin
    /\ Mut \in Range(last.trace)
    /\ ~HasSession(Admin)
    /\ Routed(Admin, "command", "cancel", "cancel")

ValidChoices == {d \in CallbackData : d.s \in {CALLBACK_MOVIES, CALLBACK_STUFF}}

\* C12: a step that sends a post to a channel is a run of
\* select_channel_and_post for the admin in WAITING_FOR_CHANNEL_SELECTION on
\* CALLBACK_MOVIES or CALLBACK_STUFF; and a run of select_channel_and_post
\* on any other callback data sends no post, writes no history, leaves the
\* sessions and files as they were and, for the admin with a session,
\* keeps the conversation where it was (stated as: a run that does any of
\* these is not a run on such data).
C12_PostOnlyOnValidChoice ==
    [][/\ sent_posts' # sent_posts
            => /\ conv[Admin] = WAITING_FOR_CHANNEL_SELECTION
               /\ last'.handler = "select_channel_and_post"
               /\ \E data \in ValidChoices : \E in \in PublishInputs(Admin, data) :
                     select_channel_and_post(Admin, data, in[1], in[2], in[3], clock + 1)
       /\ (/\ last'.handler = "select_channel_and_post"
           /\ \/ <<sent_posts, post_history, posts_file, user_data, session_file, files>>'
                    # <<sent_posts, post_history, posts_file, user_data, session_file, files>>
              \/ Post \in Range(last'.trace)
              \/ (last'.user = Admin /\ HasSession(Admin) /\ conv'[Admin] # conv[Admin]))
            => \A data \in CallbackData \ ValidChoices :
                 ~\E in \in PublishInputs(last'.user, data) :
                     select_channel_and_post(last'.user, data, in[1], in[2], in[3], clock + 1)]_vars

\* C12 witness: the admin, with a complete session, pressed a button that
\* is neither channel and is still at channel selection.
C12_Witness ==
    /\ last.handler = "select_channel_and_post" /\ last.user = Admin
    /\ last.result = "invalid"
    /\ HasSession(Admin)
    /\ StepOf(user_data[Admin]) = WAITING_FOR_CHANNEL_SELECTION
    /\ conv[Admin] = WAITING_FOR_CHANNEL_SELECTION

MissingData(sess) ==
    sess.thumbnail_path = NoPath \/ sess.url = Absent \/ sess.caption = Absent

\* C13: a run of select_channel_and_post for the admin whose session lacks
\* the thumbnail, the URL or the caption sends no post, writes no history
\* entry, deletes no file and leaves the session in memory and on disk as
\* it was.
C13_MissingDataNoEffect ==
    [][(/\ last'.handler = "select_channel_and_post" /\ last'.user = Admin
        /\ HasSession(Admin) /\ MissingData(user_data[Admin]))
          => /\ UNCHANGED <<sent_posts, post_history, posts_file, files, dirs,
                            user_data, session_file>>
             /\ Post \notin Range(last'.trace)
             /\ History \notin Range(last'.trace)]_vars

\* C13 witness: select_channel_and_post found a field missing while the
\* session has a thumbnail and a URL on file but no caption.
C13_Witness ==
    /\ last.handler = "select_channel_and_post"
    /\ last.result = "missing_data"
    /\ HasSession(Admin)
    /\ user_data[Admin].thumbnail_path \in files
    /\ user_data[Admin].url # Absent
    /\ user_data[Admin].caption = Absent

\* What C14 says of a step that sent the post of session sess.
PublishReleases(sess) ==
    LET entry == post_history'[Len(post_history')]
    IN  /\ \A t \in Range(sess.thumbnails) \ {sess.thumbnail_path} : t \notin files'
        /\ sess.thumbnail_path \in files'
        /\ entry.thumbnail_path # sess.thumbnail_path
        /\ entry.thumbnail_path # NoPath
              => /\ DirOf(entry.thumbnail_path) = 0
                 /\ entry.thumbnail_path \in files' \ files

\* C14: a step in which a channel accepted the post of the admin's session
\* deletes every candidate thumbnail but the selected one, keeps the
\* selected thumbnail file, and appends a history entry that names a copy
\* below temp/history made in this step (or no file), never the session's
\* file.
C14_PublishReleasesCandidates ==
    [][(sent_posts' # sent_posts /\ HasSession(Admin))
          => PublishReleases(user_data[Admin])]_vars

\* The same for the runs of select_channel_and_post that reach their end.
C14_WhenConfirmed ==
    [][(sent_posts' # sent_posts /\ HasSession(Admin) /\ last'.result = "posted")
          => PublishReleases(user_data[Admin])]_vars

\* The files a session refers to.
SessionFiles(sess) ==
    {sess.video_path} \cup Range(sess.thumbnails) \cup ({sess.thumbnail_path} \ {NoPath})

C16_NoOrphans ==
    \A p \in files :
        (\/ p[2] = "video"
         \/ (p[2] = "thumbnail" /\ \A i \in 1..Len(sent_posts) : sent_posts[i].session # DirOf(p)))
          => \E u \in DOMAIN user_data : p \in SessionFiles(user_data[u])

\* ------------------------------------------------- fetch_video (src/main.py)
IsRequest(e, provider) == e[1] = "request" /\ e[2] = provider

\* The outcomes of the requests made to a provider among the first n entries
\* of the log, in order.
Outcomes(log, provider, n) ==
    LET reqs == SelectSeq(SubSeq(log, 1, n), LAMBDA e : IsRequest(e, provider))
    IN  [k \in 1..Len(reqs) |-> reqs[k][3]]

AllTimeouts(outs) == Len(outs) = max_retries /\ \A k \in 1..Len(outs) : outs[k] = "timeout"

\* Nothing of the primary provider, request or wait, comes after entry i.
NoPrimaryAfter(log, i) == \A j \in (i + 1)..Len(log) : log[j][2] # "primary"

\* C17, as stated: a request goes to the fallback provider only after the
\* primary provider timed out on all its tries or returned a response that is
\* not a success, and no request goes to the primary provider after one went
\* to the fallback provider.
C17_FallbackAfterTimeoutsOrResponse ==
    \A i \in 1..Len(terabox.log) :
        IsRequest(terabox.log[i], "fallback") =>
            /\ NoPrimaryAfter(terabox.log, i)
            /\ LET outs == Outcomes(terabox.log, "primary", i - 1)
               IN  \/ AllTimeouts(outs)
                   \/ Len(outs) > 0 /\ outs[Len(outs)] = "unsuccessful"

\* C17, amended: a request goes to the fallback provider only after the
\* primary provider timed out on all its tries, returned a response that is
\* not a success, or failed with an error that is not a timeout; and no request
\* goes to the primary provider after one went to the fallback provider.
C17_FallbackAfterPrimaryGaveUp ==
    \A i \in 1..Len(terabox.log) :
        IsRequest(terabox.log[i], "fallback") =>
            /\ NoPrimaryAfter(terabox.log, i)
            /\ LET outs == Outcomes(terabox.log, "primary", i - 1)
               IN  \/ AllTimeouts(outs)
                   \/ Len(outs) > 0 /\ outs[Len(outs)] \in {"unsuccessful", "error"}

\* The fallback provider was asked after the primary provider timed out on
\* every try.
C17_Witness ==
    /\ \E i \in 1..Len(terabox.log) : IsRequest(terabox.log[i], "fallback")
    /\ AllTimeouts(Outcomes(terabox.log, "primary", Len(terabox.log)))

Providers == {"primary", "fallback"}

InFetch == terabox.pc \in {"primary", "primary_sleep", "fallback", "fallback_sleep"}

\* The number of requests made to a provider among the first n log entries.
Tries(log, provider, n) == Len(Outcomes(log, provider, n))

\* The log of a call of fetch_video keeps to the retry policy.
RetryPolicy(log) ==
    /\ \A p \in Providers : Tries(log, p, Len(log)) <= max_retries
    /\ \A p \in Providers :
         LET outs == Outcomes(log, p, Len(log))
         IN  \A k \in 1..(Len(outs) - 1) : outs[k] = "timeout"
    /\ \A i \in 1..Len(log) :
         log[i][1] = "sleep" =>
             /\ i > 1 /\ log[i - 1] = Request(log[i][2], "timeout")
             /\ Tries(log, log[i][2], i) < max_retries

\* C18: a call of fetch_video returns; each provider is asked at most
\* max_retries times; a provider is asked again only after its previous try
\* timed out, so any other error or an unsuccessful response ends its tries
\* at once; and the wait between tries comes only after a timeout that leaves
\* tries remaining.
C18_BoundedRetries ==
    /\ [](InFetch => <>(terabox.pc = "returned"))
    /\ []RetryPolicy(terabox.log)

\* Both providers timed out on every try: three requests and two waits each.
C18_Witness ==
    /\ terabox.pc = "returned"
    /\ \A p \in Providers :
         /\ AllTimeouts(Outcomes(terabox.log, p, Len(terabox.log)))
         /\ Len(SelectSeq(terabox.log, LAMBDA e : e = Sleep(p))) = max_retries - 1

\* A request to the provider returned success during the call.
Succeeded(provider) ==
    LET outs == Outcomes(terabox.log, provider, Len(terabox.log))
    IN  \E k \in 1..Len(outs) : outs[k] = "success"

\* The primary provider timed out on every try and the first request to the
\* fallback provider returned success.
TimeoutsThenFallback ==
    LET F == Outcomes(terabox.log, "fallback", Len(terabox.log))
    IN  /\ AllTimeouts(Outcomes(terabox.log, "primary", Len(terabox.log)))
        /\ Len(F) > 0 /\ F[1] = "success"

\* C19: a successful result of fetch_video is tagged 'primary' exactly when a
\* request to the primary provider returned success, and 'fallback' exactly
\* when none did and a request to the fallback provider returned success;
\* after three primary timeouts and a fallback success on the first try there
\* were exactly three primary requests and one fallback request, and the
\* result is tagged 'fallback'.
C19_SourceNamesProvider ==
    /\ terabox.result.success =>
         /\ terabox.result.source \in Providers
         /\ terabox.result.source = "primary" <=> Succeeded("primary")
         /\ terabox.result.source = "fallback" <=>
                (~Succeeded("primary") /\ Succeeded("fallback"))
    /\ TimeoutsThenFallback =>
         /\ Tries(terabox.log, "primary", Len(terabox.log)) = 3
         /\ Tries(terabox.log, "fallback", Len(terabox.log)) = 1
         /\ terabox.result.success /\ terabox.result.source = "fallback"

C19_Witness ==
    /\ TimeoutsThenFallback
    /\ terabox.pc = "returned"
    /\ terabox.result.source = "fallback"

\* fetch_video was called for the message being handled and has returned.
Returned == terabox.log # << >> /\ ~InFetch

\* C20: fetch_video returns a failure exactly when no request to either
\* provider returned success; the failure is the error text alone, with no
\* data of a provider; and handle_message then tells the user that the fetch
\* failed and makes no download request.
C20_FailureWhenNeitherSucceeded ==
    /\ [](Returned =>
            /\ ~terabox.result.success <=> (~Succeeded("primary") /\ ~Succeeded("fallback"))
            /\ ~terabox.result.success =>
                   /\ terabox.result = [success |-> FALSE, error |-> BothFailed]
                   /\ terabox.downloads = 0)
    /\ [][(terabox.pc = "returned" /\ ~terabox.result.success) =>
             /\ terabox'.pc = "done"
             /\ terabox'.replies = Append(terabox.replies, "failed_to_fetch")
             /\ terabox'.downloads = 0]_vars

\* Both providers were asked, neither returned success, and the user was told.
C20_Witness ==
    /\ terabox.pc = "done"
    /\ \A p \in Providers : Tries(terabox.log, p, Len(terabox.log)) > 0
    /\ ~terabox.result.success
    /\ terabox.replies = <<"fetching", "failed_to_fetch">>

\* ----------------------------------------------------------- acquisition
\* C21: a video whose advertised size exceeds MAX_FILE_SIZE is rejected
\* before anything is transferred: no file is written, no directory is made
\* and no session is created, changed or saved; a video of exactly
\* MAX_FILE_SIZE is not rejected for its size.
C21_OversizeRejectedBeforeTransfer ==
    [][last'.handler = "process_video" =>
          \A size \in VideoSizes : \A in \in VideoInputs(last'.user, size) :
              process_video(last'.user, size, in[1], in[2], in[3], in[4]) =>
                  /\ size > MAX_FILE_SIZE =>
                         /\ last'.result \in {"too_large", "start_required"}
                         /\ last'.trace = <<Reply>>
                         /\ UNCHANGED <<user_data, session_file, files, dirs, next_dir>>
                  /\ size = MAX_FILE_SIZE => last'.result # "too_large"]_vars

\* An oversize video was rejected while auto-start was on.
C21_Witness ==
    /\ last.handler = "process_video" /\ last.user = Admin
    /\ last.result = "too_large"
    /\ AUTO_START

\* The results of process_video that end an acquisition in failure.
AcquisitionFailures == {"too_large", "download_failed", "exception", "no_thumbnails"}

\* Nothing is left of the acquisition into directory d: no session of it, no
\* directory, no file.
NothingLeftOf(d, sessions, fs, ds) ==
    /\ \A u \in DOMAIN sessions : DirOf(sessions[u].video_path) # d
    /\ d \notin ds
    /\ \A p \in fs : DirOf(p) # d

\* C22: an acquisition that ends in failure (size exceeded, transfer failed,
\* exception after the download) leaves no session of that acquisition and
\* neither its scratch directory nor its files.
C22_FailedAcquisitionCleansUp ==
    [][(last'.handler = "process_video" /\ last'.result \in AcquisitionFailures) =>
          IF next_dir' # next_dir
          THEN NothingLeftOf(next_dir', user_data', files', dirs')
          ELSE UNCHANGED <<user_data, files, dirs>>]_vars

\* What does hold: the failures process_video handles itself (size, download
\* returning False, no candidate extracted) leave nothing of the acquisition.
C22_HandledFailuresCleanUp ==
    [][(/\ last'.handler = "process_video"
        /\ last'.result \in {"too_large", "download_failed", "no_thumbnails"}) =>
          IF next_dir' # next_dir
          THEN NothingLeftOf(next_dir', user_data', files', dirs')
          ELSE UNCHANGED <<user_data, files, dirs>>]_vars

\* The list holds the candidates of directory d at the indices in S, one
\* each, in the order of the positions.
CandidatesOf(list, d, S) ==
    /\ Len(list) = Cardinality(S)
    /\ {list[k] : k \in 1..Len(list)} = {ThumbPath(d, i) : i \in S}
    /\ \A k \in 1..(Len(list) - 1) : list[k][3] < list[k + 1][3]

\* C23: extraction is attempted at all five positions whatever fails: for
\* every set of positions whose extraction fails, the session's candidate
\* list after the loop is exactly the artifacts of the positions that
\* succeeded, in position order, each appended once.
C23_CandidatesAreSuccesses ==
    [][last'.handler = "process_video" =>
          \A in \in ExtractInputs :
              (in[1] # "in_loop" /\ process_video(Admin, 1, in[1], in[2], in[3], in[4])) =>
                  /\ in[2] # {} => HasSession(Admin)'
                  /\ HasSession(Admin)' =>
                         CandidatesOf(user_data'[Admin].thumbnails, next_dir', in[2])
                  /\ Len(SelectSeq(last'.trace, LAMBDA e : e = Mut))
                         = 1 + Cardinality(in[2]) + (IF in[1] = "ok" /\ in[2] = {} THEN 1 ELSE 0)]_vars

\* The extractions at the second and the fourth position failed: three
\* candidates.
C23_Witness ==
    /\ last.handler = "process_video" /\ last.result = "ok"
    /\ HasSession(Admin)
    /\ user_data[Admin].thumbnails
         = <<ThumbPath(next_dir, 0), ThumbPath(next_dir, 2), ThumbPath(next_dir, 4)>>

\* The acquisition of this step was reported as failed and torn down.
TornDown ==
    /\ last'.result = "no_thumbnails"
    /\ ~HasSession(Admin)'
    /\ session_file' = user_data'
    /\ NothingLeftOf(next_dir', user_data', files', dirs')
    /\ conv'[Admin] = END

\* C24: when extraction fails at all five positions the acquisition is
\* reported as failed, the session is removed and the removal saved, the
\* video and the scratch directory are deleted, and the workflow ends before
\* artifact selection.
C24_NoCandidateTearsDown ==
    [][last'.handler = "process_video" =>
          \A in \in ExtractInputs :
              (/\ in[1] # "in_loop" /\ in[2] = {}
               /\ process_video(Admin, 1, in[1], in[2], in[3], in[4])) => TornDown]_vars

\* What does hold: when no call of the handler raises, five failed
\* extractions tear the acquisition down.
C24_WhenNoCallRaises ==
    [][last'.handler = "process_video" =>
          \A in \in ExtractInputs :
              (/\ in[1] = "ok" /\ in[2] = {}
               /\ process_video(Admin, 1, in[1], in[2], in[3], in[4])) => TornDown]_vars

\* ------------------------------------------------------- custom position
\* The replies that are not a number, or a number outside 0..100.
InvalidPositions == {"abc", "150", "-1"}

AwaitsCustom(u) == HasSession(u) /\ user_data[u].waiting_for_custom_thumbnail

\* C25: while a custom position is awaited, a reply that is not a number or
\* is outside 0..100 is rejected: nothing is extracted, the session with its
\* flag and its selected artifact is as before, the workflow stays at
\* artifact selection, and a valid reply sent next is taken by the same
\* handler and moves the workflow to the URL step.
C25_InvalidPositionRejected ==
    [][(last'.handler = "handle_custom_thumbnail" /\ AwaitsCustom(Admin)) =>
          /\ \A text \in InvalidPositions, x \in {"ok", "early", "late"}, e \in BOOLEAN :
                 handle_custom_thumbnail(Admin, text, x, e) =>
                     /\ UNCHANGED <<user_data, session_file, files, dirs>>
                     /\ conv'[Admin] = WAITING_FOR_THUMBNAIL_SELECTION
                     /\ Mut \notin Range(last'.trace)
                     /\ \A valid \in {"42", "0", "100"} :
                            Routed(Admin, "text", valid, "handle_custom_thumbnail")'
          /\ (/\ last.handler = "handle_custom_thumbnail"
              /\ last.result \in {"not_a_number", "out_of_range"}
              /\ \E valid \in {"42", "0", "100"} :
                     handle_custom_thumbnail(Admin, valid, "ok", TRUE)) =>
                 /\ conv'[Admin] = WAITING_FOR_URL
                 /\ user_data'[Admin].thumbnail_path \in files'
                 /\ ~user_data'[Admin].waiting_for_custom_thumbnail]_vars

\* A position outside 0..100 was rejected while an artifact was already
\* selected; the request for a position is still open.
C25_Witness ==
    /\ last.handler = "handle_custom_thumbnail" /\ last.result = "out_of_range"
    /\ AwaitsCustom(Admin)
    /\ user_data[Admin].thumbnail_path # NoPath
    /\ conv[Admin] = WAITING_FOR_THUMBNAIL_SELECTION
    /\ Routed(Admin, "text", "42", "handle_custom_thumbnail")

NotHttp == {"ftp://c", "HTTP://A", "abc"}

\* C27: a URL reply that starts with neither http:// nor https:// is
\* rejected: the session's url is not set or changed, nothing is saved, the
\* workflow stays at the URL step, and the operator is asked again.
C27_BadUrlRejected ==
    [][(last'.handler = "process_url" /\ last'.user = Admin /\ HasSession(Admin)) =>
          \A text \in NotHttp, replied \in BOOLEAN :
              process_url(Admin, text, replied) =>
                  /\ UNCHANGED <<user_data, session_file>>
                  /\ conv'[Admin] = WAITING_FOR_URL
                  /\ last'.trace = (IF replied THEN <<Reply>> ELSE << >>)
                  /\ replied => last'.result = "invalid_url"
                  /\ Routed(Admin, "text", "https://b", "process_url")']_vars

\* A reply that is no URL was rejected after a URL had been set.
C27_Witness ==
    /\ last.handler = "process_url" /\ last.result = "invalid_url"
    /\ HasSession(Admin)
    /\ user_data[Admin].url = "http://a"
    /\ conv[Admin] = WAITING_FOR_URL

\* -------------------------------------------------------------- auto-start
\* This step is process_video for a video of the admin.
VideoStep == last'.handler = "process_video" /\ last'.user = Admin

\* C28: with auto-start off and no session, a video sent without a /start
\* before it is rejected and creates no session; after the operator's /start
\* the next video of admissible size is processed.
C28_StartAdmitsVideo ==
    [][(VideoStep /\ ~AUTO_START /\ ~HasSession(Admin)) =>
          IF last.handler = "start" /\ last.user = Admin /\ last.result = "ok"
          THEN last'.result \notin {"start_required"}
          ELSE /\ last'.result = "start_required"
               /\ UNCHANGED <<user_data, session_file, files, dirs>>]_vars

\* What does hold: with auto-start off and no session every video is
\* rejected and creates no session, after /start as well.
C28_RejectedWithoutSession ==
    [][(VideoStep /\ ~AUTO_START /\ ~HasSession(Admin)) =>
          /\ last'.result = "start_required"
          /\ UNCHANGED <<user_data, session_file, files, dirs>>]_vars

\* ------------------------------------------ broadcast_message (src/main.py)
\* A call of broadcast_message that found the database has ended.
BroadcastEnded ==
    /\ bcast.pc \in {"returned", "raised"}
    /\ ~(bcast.pc = "returned" /\ bcast.result = [success |-> FALSE,
                                                 error |-> "No database connection"])

\* C29: whatever the number of users and whichever sends fail, a send is
\* attempted for every user, in the first batch and in the later ones, and
\* the call returns counts and does not raise.
C29_EveryRecipientAttempted ==
    BroadcastEnded => (bcast.pc = "returned" /\ bcast.attempted = bcast.total)

\* What does hold: a failed send never stops the sends to the other users of
\* its batch, and with fewer users than a batch every user is attempted and
\* the counts are returned.
C29_WithinOneBatch ==
    /\ (bcast.pc \in {"batch", "rest"} /\ bcast.pending = 0) => bcast.attempted = bcast.read
    /\ (BroadcastEnded /\ bcast.total < batch_size) =>
           (bcast.pc = "returned" /\ bcast.attempted = bcast.total)

\* The counts a call returns for n users of which `failures` could not be
\* reached.
Counts(n, failures) ==
    [success |-> TRUE, total |-> n, sent |-> n - failures, failed |-> failures]

\* C30: broadcast_message returns counts in which total is the number of
\* users, sent the number of successful sends and failed the number of
\* failed sends, with sent + failed = total; a broadcast to 250 users of
\* which one fails returns total 250, sent 249, failed 1.
C30_CountsAddUp ==
    BroadcastEnded =>
        /\ bcast.pc = "returned"
        /\ bcast.result = Counts(bcast.total, bcast.fail_count)
        /\ bcast.success_count + bcast.fail_count = bcast.total

\* What does hold: the counts of a call that returns add up to the number of
\* users.
C30_ReturnedCountsAddUp ==
    (bcast.pc = "returned" /\ bcast.result.success) =>
        /\ bcast.result = Counts(bcast.total, bcast.fail_count)
        /\ bcast.result.sent = bcast.success_count
        /\ bcast.result.sent + bcast.result.failed = bcast.result.total

C31_ReplyFollowsResult ==
    [][(bcast.command = "none" /\ bcast'.command # "none") =>
          /\ bcast.pc = "returned"
          /\ bcast'.command = IF bcast.result.success THEN "completed" ELSE "failed"]_vars

\* Every send of a returned call failed and /broadcast replied with counts.
C31_AllSendsFailed ==
    /\ bcast.command = "completed"
    /\ bcast.total > 0
    /\ bcast.fail_count = bcast.total

\* ---------------------------------------------------- a failing save_session
InTrace(x, tr) == \E i \in DOMAIN tr : tr[i] = x

\* C32: when save_session fails in process_url or process_caption, the
\* handler tells the operator of the failure and the conversation stays at
\* the step it was at.
C32_FailedSaveStopsWorkflow ==
    [][(/\ last'.handler \in {"process_url", "process_caption"}
        /\ InTrace(SaveUnsaved, last'.trace)) =>
          (last'.result = "save_failed" /\ conv' = conv)]_vars

\* What the code does: the reply after a failed save is the one after a
\* successful save, and so is the step the conversation moves to.
C32_FailedSaveUnnoticed ==
    [][\A text \in UrlTexts, disk \in DiskOutcomes :
          (/\ last'.handler = "process_url"
           /\ process_url_disk(ADMIN_USER_ID, text, TRUE, disk)) =>
              /\ last'.result \in {"ok", "no_session", "invalid_url"}
              /\ conv' = [conv EXCEPT ![ADMIN_USER_ID] =
                             IF last'.result = "ok" THEN WAITING_FOR_CAPTION
                             ELSE IF last'.result = "invalid_url" THEN WAITING_FOR_URL
                             ELSE END]]_vars

\* The conversation is at the caption while the session on file has no URL.
C32_Unsaved ==
    /\ conv[ADMIN_USER_ID] = WAITING_FOR_CAPTION
    /\ InTrace(SaveUnsaved, last.trace)
    /\ ADMIN_USER_ID \in DOMAIN user_data /\ user_data[ADMIN_USER_ID].url # Absent
    /\ (ADMIN_USER_ID \notin DOMAIN session_file \/ session_file[ADMIN_USER_ID].url = Absent)

\* ------------------------------------ download_large_file_with_progress
\* C33: a progress edit that fails during a download does not stop it: the
\* call goes on, what was written stays, and the call ends as it would have
\* ended had the edit succeeded (with True and the whole file, unless the
\* stream itself failed).
C33_FailedEditHarmless ==
    (transfer.edit_failed /\ ~transfer.stream_failed) =>
        /\ transfer.pc = "returned" => transfer.result = "True"
        /\ transfer.pc = "done" => transfer.kept = transfer.total

\* What the code does: the first failed edit ends the call with False, and
\* process_video then keeps nothing of the file.
C33_FailedEditAborts ==
    transfer.edit_failed =>
        /\ transfer.pc \in {"returned", "done"}
        /\ transfer.result = "False"
        /\ transfer.pc = "done" => transfer.kept = 0

\* All chunks were written, the final edit failed, the file is gone.
C33_Aborted ==
    /\ transfer.pc = "done"
    /\ transfer.edit_failed /\ ~transfer.stream_failed
    /\ transfer.downloaded = transfer.total
    /\ transfer.kept = 0

\* ------------------------------- src/main.py: the updates of another user
\* fetch_video or the download of one user's message is waiting for the
\* network or for the delay between two tries.
NetworkWait ==
    terabox.pc \in {"primary", "primary_sleep", "fallback", "fallback_sleep", "download"}

\* C34: while one user's resolution or download waits for the network or
\* for the delay between two tries, a waiting update of another user can be
\* processed.
C34_OthersHandledDuringWait ==
    (NetworkWait /\ loop.pending) => ENABLED process_update

\* What does hold: a waiting update of another user can be processed
\* whenever the first user's handler is not inside such a wait.
C34_HandledOutsideWait ==
    (loop.pending /\ ~NetworkWait) => ENABLED process_update

\* An update of another user waits while the first user's request is in its
\* third try of the fallback provider.
C34_Starved ==
    /\ loop.pending
    /\ terabox.pc = "fallback" /\ terabox.fallback_retries = 1
    /\ ~ENABLED process_update

\* ------------------------------- src/main.py: the download of handle_message
\* The number of times x occurs in the sequence q.
Count(x, q) == Cardinality({i \in DOMAIN q : q[i] = x})

\* handle_message has ended after a download that did not send the video.
DownloadGivenUp ==
    /\ terabox.pc \in {"done", "raised"}
    /\ terabox.downloads > 0
    /\ Count("video", terabox.replies) = 0

\* C35: after a successful resolution the download is tried up to 3 times;
\* when every try fails the user gets exactly one failure message with the
\* direct link; a file above the limit of the transport gets the direct link
\* without any download.
C35_DownloadRetriedThenLink ==
    /\ DownloadGivenUp =>
           /\ terabox.downloads = max_download_retries
           /\ Count("download_failed", terabox.replies) = 1
    /\ Count("too_large", terabox.replies) > 0 => terabox.downloads = 0

\* What does hold: a file above the limit gets the direct link and no
\* download; the download is tried once, and a failed try ends the handler
\* in its outer except clause without the message that carries the link.
C35_OneTryOnly ==
    /\ (terabox.pc = "done" /\ terabox.result.success /\ ~terabox.result.data.missing
          /\ terabox.result.data.downloadLink # Absent
          /\ terabox.result.data.size > TELEGRAM_SIZE_LIMIT) =>
           (terabox.replies = <<"fetching", "too_large">> /\ terabox.downloads = 0)
    /\ terabox.downloads <= 1
    /\ DownloadGivenUp =>
           (terabox.pc = "raised" /\ Count("download_failed", terabox.replies) = 0)

\* The first try of a download has failed and the handler is in its outer
\* except clause.
C35_GivenUpAfterOneTry ==
    /\ DownloadGivenUp
    /\ terabox.downloads = 1
    /\ terabox.replies = <<"fetching">>

\* --------------------------------------- src/main.py: extract_terabox_id
\* The places of `text` where `prefix` is followed by a character of the
\* class.
Matches(prefix, text) ==
    {i \in 1..Len(text) :
        /\ i + Len(prefix) <= Len(text)
        /\ \A k \in 1..Len(prefix) : text[i + k - 1] = prefix[k]
        /\ text[i + Len(prefix)] \in IdChars}

\* The identifier that follows the first occurrence of `prefix`: the
\* characters up to the first one outside the class or the end of the text.
IdentifierAfter(prefix, text) ==
    LET i == CHOOSE m \in Matches(prefix, text) : \A o \in Matches(prefix, text) : m <= o
        from == i + Len(prefix)
        to == CHOOSE e \in from..Len(text) :
                 /\ \A k \in from..e : text[k] \in IdChars
                 /\ e = Len(text) \/ text[e + 1] \notin IdChars
    IN  SubSeq(text, from, to)

\* `text` without the spaces at its two ends.
Trimmed(text) ==
    LET inner == {i \in 1..Len(text) : text[i] # " "}
    IN  IF inner = {} THEN << >>
        ELSE SubSeq(text, CHOOSE i \in inner : \A j \in inner : i <= j,
                          CHOOSE i \in inner : \A j \in inner : i >= j)

\* C36: extract_terabox_id returns the identifier after the first /s/ when
\* the text has one, otherwise the identifier after the first id= when the
\* text has one, otherwise the text without the whitespace around it; a /s/
\* identifier wins over an id= parameter in the same text.
C36_FirstPatternWins ==
    link.called =>
        link.video_id =
            IF Matches(PathPattern, link.text) # {}
            THEN IdentifierAfter(PathPattern, link.text)
            ELSE IF Matches(QueryPattern, link.text) # {}
            THEN IdentifierAfter(QueryPattern, link.text)
            ELSE Trimmed(link.text)

\* A text with a /s/ identifier before an id= parameter gave the /s/
\* identifier.
C36_Witness ==
    /\ link.called
    /\ link.text = <<"/", "s", "/", "a", "1", "?", "x", "=", "1", "i", "d", "=", "h">>
    /\ link.video_id = <<"a", "1">>

\* The three cases of extract_terabox_id on the texts of the model.
C36_Scenario ==
    /\ extract_terabox_id(<<"h", "/", "s", "/", "a", "1", "?", "x", "=", "1">>) = <<"a", "1">>
    /\ extract_terabox_id(<<"i", "d", "=", "a", "1", "/", "s", "/", "h">>) = <<"h">>
    /\ extract_terabox_id(<<"h", "?", "x", "=", "1", "i", "d", "=", "a", "1", ".">>) = <<"a", "1">>
    /\ extract_terabox_id(<<" ", "a", "1", " ", "h", " ">>) = <<"a", "1", " ", "h">>
    /\ extract_terabox_id(<<"/", "s", "/", ".", " ">>) = <<"/", "s", "/", ".">>

\* ------------------------------------------------ sessions of ended workflows
\* C37: whenever the operator's conversation is over, user_data holds no
\* session of the operator: every handler that ends the conversation also
\* removes the session.
C37_EndedWorkflowHasNoSession ==
    conv[Admin] = END => ~HasSession(Admin)

\* The same for the handlers alone, the restart of the process set aside: a
\* handler that returns END leaves no session.
C37_EndingHandlerRemovesSession ==
    [][(last'.handler # "main" /\ conv[Admin] # END /\ conv'[Admin] = END) =>
          ~HasSession(Admin)']_vars

\* What does hold: the handlers that end the conversation and remove the
\* session are the successful publish, /cancel, and the acquisition in
\* which no thumbnail could be extracted.
C37_PathsThatRemove ==
    [][(/\ last'.handler # "main" /\ conv[Admin] # END /\ conv'[Admin] = END
        /\ HasSession(Admin) /\ ~HasSession(Admin)') =>
          \/ last'.handler = "select_channel_and_post" /\ last'.result = "posted"
          \/ last'.handler = "cancel"
          \/ last'.handler = "process_video" /\ last'.result = "no_thumbnails"]_vars

\* ------------------------------------------- what process_video presents
\* process_video has presented the operator's candidates.
Presented ==
    /\ last.handler = "process_video" /\ last.result = "ok"
    /\ HasSession(Admin)

\* The position the file p was extracted at.
ExtractedAt(p) == positions[p[3]]

\* The button numbered as the photo of index i selects that photo.
ButtonSelectsShown(thumbnails, i) ==
    /\ Button(i).number = PhotoCaption(thumbnails, i).number
    /\ ParseIndex(Button(i).data) = <<TRUE, i>>
    /\ ListIndex(thumbnails, i) = <<TRUE, PhotoCaption(thumbnails, i).photo>>

\* C38: whichever of the five extractions failed, each candidate shown is
\* labelled with the position it was extracted at, and button k selects the
\* candidate shown as number k.
C38_LabelsAndButtonsMatch ==
    Presented =>
        LET thumbnails == user_data[Admin].thumbnails
        IN  \A i \in 0..(Len(thumbnails) - 1) :
                /\ PhotoCaption(thumbnails, i).position
                      = ExtractedAt(PhotoCaption(thumbnails, i).photo)
                /\ ButtonSelectsShown(thumbnails, i)

\* What does hold: button k selects the candidate shown as number k, and a
\* candidate's label is right when no earlier position failed.
C38_ButtonsMatch ==
    Presented =>
        LET thumbnails == user_data[Admin].thumbnails
        IN  \A i \in 0..(Len(thumbnails) - 1) :
                /\ ButtonSelectsShown(thumbnails, i)
                /\ thumbnails[i + 1] = ThumbPath(next_dir, i) =>
                       PhotoCaption(thumbnails, i).position
                         = ExtractedAt(PhotoCaption(thumbnails, i).photo)

\* The extractions at 25% and 75% failed: the candidate extracted at 90% is
\* shown as number 3 with the label 50%.
C38_Mislabelled ==
    /\ Presented
    /\ user_data[Admin].thumbnails
         = <<ThumbPath(next_dir, 0), ThumbPath(next_dir, 2), ThumbPath(next_dir, 4)>>
    /\ PhotoCaption(user_data[Admin].thumbnails, 2).position = 50
    /\ ExtractedAt(PhotoCaption(user_data[Admin].thumbnails, 2).photo) = 90

\* ------------------------------------------------- the index of a selection
\* The callback data of a regular selection whose index is not one of
\* 0..len(thumbnails)-1: not a number, too large, or negative.
BadIndex(data, thumbnails) ==
    /\ StartsWithThumbnail(data) /\ data.s # CALLBACK_THUMBNAIL_CUSTOM
    /\ \/ ~ParseIndex(data)[1]
       \/ ParseIndex(data)[2] \notin 0..(Len(thumbnails) - 1)

\* C39: a selection whose index is not in 0..len(thumbnails)-1 is rejected:
\* the session is as it was and the conversation stays at the selection.
C39_BadIndexRejected ==
    [][(last'.handler = "select_thumbnail" /\ HasSession(Admin)) =>
          \A data \in CallbackData :
              (/\ BadIndex(data, user_data[Admin].thumbnails)
               /\ select_thumbnail(Admin, data, "ok")) =>
                  /\ user_data' = user_data
                  /\ conv'[Admin] = WAITING_FOR_THUMBNAIL_SELECTION]_vars

\* What does hold: an index that is not a number, is len(thumbnails) or more,
\* or is below -len(thumbnails) is rejected; an index from -len(thumbnails)
\* to -1 selects the candidate counted from the end of the list.
C39_RejectedOrFromTheEnd ==
    [][(last'.handler = "select_thumbnail" /\ HasSession(Admin)) =>
          \A data \in CallbackData :
              (/\ BadIndex(data, user_data[Admin].thumbnails)
               /\ select_thumbnail(Admin, data, "ok")) =>
                  LET thumbnails == user_data[Admin].thumbnails
                      k == ParseIndex(data)[2]
                  IN  IF ParseIndex(data)[1] /\ -Len(thumbnails) <= k /\ k <= -1
                      THEN /\ user_data' = [user_data EXCEPT ![Admin].thumbnail_path =
                                                thumbnails[Len(thumbnails) + k + 1]]
                           /\ conv'[Admin] = WAITING_FOR_URL
                      ELSE /\ user_data' = user_data
                           /\ conv'[Admin] = WAITING_FOR_THUMBNAIL_SELECTION]_vars

\* The consequence the claim draws holds all the same: the selected
\* thumbnail of a session is one of its candidates or the thumbnail of the
\* custom position.
C39_SelectedIsCandidate ==
    \A u \in DOMAIN user_data :
        LET sess == user_data[u]
        IN  sess.thumbnail_path # NoPath =>
               \/ sess.thumbnail_path \in Range(sess.thumbnails)
               \/ sess.thumbnail_path = CustomPath(DirOf(sess.video_path))

\* ------------------------------------------ src/main.py: is_user_member
\* The message being handled has got as far as fetch_video or the download.
Resolving ==
    \/ terabox.pc \in {"primary", "primary_sleep", "fallback", "fallback_sleep", "returned",
                        "download"}
    \/ terabox.log # << >>
    \/ terabox.downloads > 0

\* C40: handle_message resolves and downloads only for a user whose lookup
\* came to member, administrator or creator, or raised; a user with any
\* other status gets the request to join and nothing else, and a user whose
\* lookup raised is served as a member is.
C40_OnlyMembersServed ==
    /\ Resolving => terabox.lookup \in {"member", "administrator", "creator", "error"}
    /\ terabox.lookup \in {"restricted", "left", "kicked"} =>
           /\ terabox.pc = "done"
           /\ terabox.replies = <<"join_channel">>
           /\ ~Resolving
    /\ terabox.lookup \in {"member", "administrator", "creator", "error"} =>
           /\ Count("join_channel", terabox.replies) = 0
           /\ terabox.replies[1] \in {"fetching", "invalid_link"}

\* A user whose lookup raised got the video.
C40_Witness ==
    /\ terabox.lookup = "error"
    /\ terabox.pc = "done"
    /\ terabox.replies = <<"fetching", "video">>
    /\ terabox.downloads = 1

\* A user who left the channel was asked to join.
C40_Refused ==
    /\ terabox.lookup = "left"
    /\ terabox.replies = <<"join_channel">>
====
